---- MODULE Spec2Model ----
(***************************************************************************)
(* Life-cycle-assessment engine (lib/lca-calculations.ts) as a state       *)
(* machine.  A caller builds one LCAInput record on the heap; the engine's *)
(* exported functions are then applied to it.                              *)
(*                                                                         *)
(* Numbers.  The program computes with JavaScript numbers.  The model      *)
(* computes with exact rationals <<n, d>> (d > 0, lowest terms), so        *)
(* Math.round, the 2-decimal roundings and every threshold comparison are  *)
(* decided on the exact value of the expression the code evaluates.        *)
(*                                                                         *)
(* Objects.  Records and arrays of the program are heap cells addressed by *)
(* a reference (an index into heap), so that the shallow copy              *)
(* { ...input } and the field assignments that follow it act on shared or  *)
(* fresh cells exactly as in the program.                                  *)
(***************************************************************************)
EXTENDS Integers, Sequences, FiniteSets, TLC

VARIABLES heap, callerInput, given, pc, norm, renorm, result, direct,
          passedRecommendations, form, pending, submitted, view, user

vars ==
    <<heap, callerInput, given, pc, norm, renorm, result, direct,
      passedRecommendations, form, pending, submitted, view, user>>

(***************************************************************************)
(* JavaScript number arithmetic, exact.                                    *)
(***************************************************************************)
RECURSIVE GCD(_, _)
GCD(a, b) == IF b = 0 THEN a ELSE GCD(b, a % b)

Abs(a) == IF a < 0 THEN -a ELSE a

\* the rational n/d in lowest terms, for d > 0
Q(n, d) == LET g == GCD(Abs(n), d) IN <<n \div g, d \div g>>

QInt(k) == <<k, 1>>

Zero == QInt(0)

QAdd(x, y) ==
    LET g == GCD(x[2], y[2])
    IN  Q(x[1] * (y[2] \div g) + y[1] * (x[2] \div g), (x[2] \div g) * y[2])

QSub(x, y) == QAdd(x, <<-y[1], y[2]>>)

QMul(x, y) ==
    LET g1 == GCD(Abs(x[1]), y[2])
        g2 == GCD(Abs(y[1]), x[2])
    IN  Q((x[1] \div g1) * (y[1] \div g2), (x[2] \div g2) * (y[2] \div g1))

\* x / y for y # 0
QDiv(x, y) ==
    IF y[1] > 0 THEN QMul(x, <<y[2], y[1]>>) ELSE QMul(x, <<-y[2], -y[1]>>)

QLt(x, y) == x[1] * y[2] < y[1] * x[2]

QLe(x, y) == x[1] * y[2] <= y[1] * x[2]

QGt(x, y) == QLt(y, x)

QGe(x, y) == QLe(y, x)

\* Math.max, Math.min
MathMax(x, y) == IF QLt(x, y) THEN y ELSE x

MathMin(x, y) == IF QLt(y, x) THEN y ELSE x

\* Math.round: the nearest integer, a tie going up
MathRound(x) == QInt((2 * x[1] + x[2]) \div (2 * x[2]))

\* Math.round(x * k) / k
RoundTo(x, k) == QDiv(MathRound(QMul(x, QInt(k))), QInt(k))

\* a || b on numbers: b when a is 0
OrElse(a, b) == IF a = Zero THEN b ELSE a

RECURSIVE SumQ(_)
SumQ(s) == IF s = <<>> THEN Zero ELSE QAdd(Head(s), SumQ(Tail(s)))

\* Array.prototype.map and filter on a sequence
Map(s, F(_)) == [i \in 1..Len(s) |-> F(s[i])]

Filter(s, P(_)) == SelectSeq(s, P)

(***************************************************************************)
(* Strings are sequences of one-character strings.                         *)
(***************************************************************************)
LowerLetters ==
    {"a", "b", "c", "d", "e", "f", "g", "h", "i", "j", "k", "l", "m",
     "n", "o", "p", "q", "r", "s", "t", "u", "v", "w", "x", "y", "z"}

Digits == {"0", "1", "2", "3", "4", "5", "6", "7", "8", "9"}

UpperToLower ==
    [A |-> "a", B |-> "b", C |-> "c", D |-> "d", E |-> "e", F |-> "f",
     G |-> "g", H |-> "h", I |-> "i", J |-> "j", K |-> "k", L |-> "l",
     M |-> "m", N |-> "n", O |-> "o", P |-> "p", Q |-> "q", R |-> "r",
     S |-> "s", T |-> "t", U |-> "u", V |-> "v", W |-> "w", X |-> "x",
     Y |-> "y", Z |-> "z"]

\* String.prototype.toLowerCase
ToLowerCase(s) ==
    [i \in 1..Len(s) |->
        IF s[i] \in DOMAIN UpperToLower THEN UpperToLower[s[i]] ELSE s[i]]

\* s.replace(/[^a-z0-9]/g, '')
StripNonAlnum(s) == SelectSeq(s, LAMBDA c : c \in LowerLetters \cup Digits)

\* String.prototype.includes
Includes(s, key) ==
    \E i \in 0..(Len(s) - Len(key)) : SubSeq(s, i + 1, i + Len(key)) = key

Whitespace == {" "}

\* String.prototype.trim
RECURSIVE TrimStart(_)
TrimStart(s) ==
    IF s # <<>> /\ Head(s) \in Whitespace THEN TrimStart(Tail(s)) ELSE s

RECURSIVE TrimEnd(_)
TrimEnd(s) ==
    IF s # <<>> /\ s[Len(s)] \in Whitespace
    THEN TrimEnd(SubSeq(s, 1, Len(s) - 1))
    ELSE s

Trim(s) == TrimEnd(TrimStart(s))

(***************************************************************************)
(* Factor tables.                                                          *)
(***************************************************************************)
EMISSION_FACTORS ==
    [electricity |-> Q(436, 1000),
     natural_gas |-> Q(202, 100),
     diesel      |-> Q(268, 100),
     coal        |-> Q(242, 100),
     renewable   |-> Q(12, 1000)]

TRANSPORT_FACTORS ==
    [truck |-> Q(621, 10000),
     rail  |-> Q(224, 10000),
     ship  |-> Q(82, 10000),
     air   |-> Q(6023, 10000)]

\* Object.entries(GWP_FACTORS): the keys in insertion order
GWP_FACTORS ==
    << [key |-> <<"c", "o", "2">>, factor |-> QInt(1)],
       [key |-> <<"c", "h", "4">>, factor |-> Q(298, 10)],
       [key |-> <<"n", "2", "o">>, factor |-> QInt(273)],
       [key |-> <<"s", "f", "6">>, factor |-> QInt(25200)],
       [key |-> <<"h", "f", "c">>, factor |-> QInt(1530)],
       [key |-> <<"p", "f", "c">>, factor |-> QInt(9200)] >>

WATER_FACTOR == Q(344, 1000)

BENCHMARKS ==
    [electricity_per_tonne   |-> QInt(500),
     water_per_tonne         |-> QInt(5),
     emission_factor_default |-> Q(15, 10),
     transport_distance      |-> QInt(200),
     waste_recycle_rate      |-> Q(3, 10)]

DefaultProjectName ==
    <<"U", "n", "n", "a", "m", "e", "d", " ", "L", "C", "A", " ",
      "P", "r", "o", "j", "e", "c", "t">>

(***************************************************************************)
(* The heap.  heap[r] is the cell the reference r names: an LCAInput       *)
(* object (its array and water fields hold references), an array (a        *)
(* sequence of entries) or a WaterUsage record.                            *)
(***************************************************************************)
Undefined == <<>>

\* a fresh cell holding v
Alloc(h, v) == [heap |-> Append(h, v), ref |-> Len(h) + 1]

\* an assignment that is lost
AssignDropped(h, ref, field, v) == h

\* obj.field = v
Assign(h, ref, field, v) == [h EXCEPT ![ref] = [@ EXCEPT ![field] = v]]

\* const copy = obj  (no copy: the same cell under a second name)
SpreadAlias(h, ref) == [heap |-> h, ref |-> ref]

\* { ...obj }: a fresh object with obj's own fields; the references in them
\* are copied, the cells they name are shared
Spread(h, ref) == Alloc(h, h[ref])

\* the LCAInput an object denotes, its arrays and water record read through
\* their references
Deref(h, ref) ==
    LET o == h[ref]
    IN  [projectName  |-> o.projectName,
         rawMaterials |-> h[o.rawMaterials],
         energy       |-> h[o.energy],
         emissions    |-> h[o.emissions],
         water        |-> h[o.water],
         transport    |-> h[o.transport],
         waste        |-> h[o.waste]]

\* Array.prototype.every
Every(s, P(_)) == \A i \in 1..Len(s) : P(s[i])

(***************************************************************************)
(* validateAndApplyBenchmarks                                              *)
(***************************************************************************)
\* rawMaterials.reduce((sum, m) => sum + (tonnes ? quantity * 1000 : quantity), 0)
MaterialSum(rawMaterials) ==
    SumQ(Map(rawMaterials,
             LAMBDA m : IF m.unit = "tonnes"
                        THEN QMul(m.quantity, QInt(1000))
                        ELSE m.quantity))

\* the energy test without the all-amounts-zero case
NoEnergyDataEmptyOnly(input) == Len(input.energy) = 0

NoEnergyData(input) ==
    Len(input.energy) = 0 \/ Every(input.energy, LAMBDA e : e.amount = Zero)

\* the water test written consumption < 0
NoWaterDataNegative(input) == QLt(input.water.consumption, Zero)

NoWaterData(input) == input.water.consumption = Zero


\* the transport test without the all-distances-zero case
NoTransportDataEmptyOnly(input) == Len(input.transport) = 0

NoTransportData(input) ==
    Len(input.transport) = 0
        \/ Every(input.transport, LAMBDA t : t.distance = Zero)

NoEmissionsData(input) ==
    Len(input.emissions) = 0
        \/ Every(input.emissions, LAMBDA e : e.amount = Zero)

BlankProjectName(input) ==
    input.projectName = <<>> \/ Trim(input.projectName) = <<>>

\* the warning messages are not modelled
Warning(field, usedBenchmark, benchmarkValue) ==
    [field |-> field, usedBenchmark |-> usedBenchmark,
     benchmarkValue |-> benchmarkValue]

\* the state of one call: the heap, the reference of validatedInput and the
\* warnings pushed so far
Validation(copy) ==
    [heap |-> copy.heap, validatedInput |-> copy.ref, warnings |-> <<>>]

\* warnings.push(warning)
Push(st, warning) == [st EXCEPT !.warnings = Append(@, warning)]

\* validatedInput.field = a, for a freshly allocated array or object a
Store(st, field, a) ==
    [st EXCEPT !.heap = Assign(a.heap, st.validatedInput, field, a.ref)]

\* (totalMaterialKg / 1000) * perTonne
PerTonne(totalMaterialKg, perTonne) ==
    QMul(QDiv(totalMaterialKg, QInt(1000)), perTonne)

EnergyStep(st, input, totalMaterialKg) ==
    IF NoEnergyData(input)
    THEN Push(Store(st, "energy",
                    Alloc(st.heap,
                          << [type |-> "electricity",
                              amount |-> PerTonne(totalMaterialKg,
                                            BENCHMARKS.electricity_per_tonne),
                              unit |-> "kWh"] >>)),
              Warning("Energy", TRUE,
                      PerTonne(totalMaterialKg,
                               BENCHMARKS.electricity_per_tonne)))
    ELSE st

\* { ...input.water, consumption: benchmarkWater }
WaterStep(st, input, inputRef, totalMaterialKg) ==
    IF NoWaterData(input)
    THEN Push(Store(st, "water",
                    Alloc(st.heap,
                          [st.heap[st.heap[inputRef].water] EXCEPT
                               !.consumption =
                                   PerTonne(totalMaterialKg,
                                            BENCHMARKS.water_per_tonne)])),
              Warning("Water", TRUE,
                      PerTonne(totalMaterialKg, BENCHMARKS.water_per_tonne)))
    ELSE st

TransportStep(st, input, totalMaterialKg) ==
    IF NoTransportData(input)
    THEN Push(Store(st, "transport",
                    Alloc(st.heap,
                          << [mode |-> "truck",
                              distance |-> BENCHMARKS.transport_distance,
                              loadWeight |-> totalMaterialKg] >>)),
              Warning("Transport", TRUE, BENCHMARKS.transport_distance))
    ELSE st


\* the emissions check made to impute: one unit of CO2, reported as a
\* benchmark
EmissionsStepImputed(st, input) ==
    IF NoEmissionsData(input)
    THEN Push(Store(st, "emissions",
                    Alloc(st.heap,
                          << [type |-> <<"C", "O", "2">>,
                              amount |-> QInt(1)] >>)),
              Warning("Emissions", TRUE, QInt(1)))
    ELSE st

\* emissions: a warning only
EmissionsStep(st, input) ==
    IF NoEmissionsData(input)
    THEN Push(st, Warning("Emissions", FALSE, Undefined))
    ELSE st

ProjectNameStep(st, input) ==
    IF BlankProjectName(input)
    THEN Push([st EXCEPT !.heap = Assign(@, st.validatedInput, "projectName",
                                         DefaultProjectName)],
              Warning("Project Name", FALSE, Undefined))
    ELSE st

\* the five checks in the order of the code
ApplyBenchmarks(st, input, inputRef, totalMaterialKg) ==
    ProjectNameStep(
        EmissionsStep(
            TransportStep(
                WaterStep(EnergyStep(st, input, totalMaterialKg),
                          input, inputRef, totalMaterialKg),
                input, totalMaterialKg),
            input),
        input)

\* returns the heap after the call, the reference of validatedInput and the
\* warnings
validateAndApplyBenchmarks(h, inputRef) ==
    ApplyBenchmarks(Validation(Spread(h, inputRef)),
                    Deref(h, inputRef),
                    inputRef,
                    OrElse(MaterialSum(h[h[inputRef].rawMaterials]),
                           QInt(1000)))

(***************************************************************************)
(* Impact calculator                                                       *)
(***************************************************************************)
\* every energy type charged at the grid electricity factor
EnergyFactorGridOnly(type) == EMISSION_FACTORS.electricity

\* EMISSION_FACTORS[e.type] || EMISSION_FACTORS.electricity
EnergyFactor(type) ==
    IF type \in DOMAIN EMISSION_FACTORS
    THEN OrElse(EMISSION_FACTORS[type], EMISSION_FACTORS.electricity)
    ELSE EMISSION_FACTORS.electricity

\* the multiplier of the last key found instead of the first
GwpFactorLastMatch(type) ==
    LET emissionType == StripNonAlnum(ToLowerCase(type))
        found == SelectSeq(GWP_FACTORS,
                           LAMBDA entry : Includes(emissionType, entry.key))
    IN  IF found = <<>> THEN QInt(1)
        ELSE OrElse(found[Len(found)].factor, QInt(1))

\* Object.entries(GWP_FACTORS).find(([key]) => emissionType.includes(key))?.[1] || 1
GwpFactor(type) ==
    LET emissionType == StripNonAlnum(ToLowerCase(type))
        found == SelectSeq(GWP_FACTORS,
                           LAMBDA entry : Includes(emissionType, entry.key))
    IN  IF found = <<>> THEN QInt(1) ELSE OrElse(Head(found).factor, QInt(1))

\* (t.distance * t.loadWeight * factor) / 1000
TransportTerm(t) ==
    QDiv(QMul(QMul(t.distance, t.loadWeight), TRANSPORT_FACTORS[t.mode]),
         QInt(1000))

calculateGWP(input) ==
    LET energyPart ==
            SumQ(Map(input.energy,
                     LAMBDA e : QMul(e.amount, EnergyFactor(e.type))))
        emissionsPart ==
            SumQ(Map(input.emissions,
                     LAMBDA e : QMul(e.amount, GwpFactor(e.type))))
        transportPart == SumQ(Map(input.transport, TransportTerm))
        waterPart == QMul(input.water.consumption, WATER_FACTOR)
        totalGWP ==
            QAdd(QAdd(QAdd(energyPart, emissionsPart), transportPart),
                 waterPart)
    IN  RoundTo(totalGWP, 100)


\* the intensity over the mass the normalizer uses: every quantity, and
\* 1000 kg when they add up to 0
calculateEnergyIntensityDefaultMass(input) ==
    RoundTo(QDiv(SumQ(Map(input.energy,
                          LAMBDA e : IF e.unit = "MJ"
                                     THEN e.amount
                                     ELSE QMul(e.amount, Q(36, 10)))),
                 OrElse(MaterialSum(input.rawMaterials), QInt(1000))),
            100)

\* the intensity over the quantities of all materials, whatever their unit
calculateEnergyIntensityAllUnits(input) ==
    LET totalEnergy ==
            SumQ(Map(input.energy,
                     LAMBDA e : IF e.unit = "MJ"
                                THEN e.amount
                                ELSE QMul(e.amount, Q(36, 10))))
        totalMaterial ==
            SumQ(Map(input.rawMaterials,
                     LAMBDA m : IF m.unit = "tonnes"
                                THEN QMul(m.quantity, QInt(1000))
                                ELSE m.quantity))
    IN  IF QGt(totalMaterial, Zero)
        THEN RoundTo(QDiv(totalEnergy, totalMaterial), 100)
        ELSE Zero

calculateEnergyIntensity(input) ==
    LET totalEnergy ==
            SumQ(Map(input.energy,
                     LAMBDA e : IF e.unit = "kWh"
                                THEN QMul(e.amount, Q(36, 10))
                                ELSE IF e.unit = "MJ"
                                     THEN e.amount
                                     ELSE QMul(e.amount, Q(36, 10))))
        totalMaterial ==
            SumQ(Map(input.rawMaterials,
                     LAMBDA m : IF m.unit = "kg" \/ m.unit = "tonnes"
                                THEN IF m.unit = "tonnes"
                                     THEN QMul(m.quantity, QInt(1000))
                                     ELSE m.quantity
                                ELSE Zero))
    IN  IF QGt(totalMaterial, Zero)
        THEN RoundTo(QDiv(totalEnergy, totalMaterial), 100)
        ELSE Zero

\* the net consumption rounded, without the floor at 0
calculateWaterFootprintNoFloor(input) ==
    RoundTo(QSub(input.water.consumption, input.water.recycled), 100)

calculateWaterFootprint(input) ==
    LET netConsumption == QSub(input.water.consumption, input.water.recycled)
    IN  RoundTo(MathMax(Zero, netConsumption), 100)

(***************************************************************************)
(* Circularity scorer                                                      *)
(***************************************************************************)
\* the sum of the ratios, not divided by the number of entries
WasteRecycleSum(waste) ==
    SumQ(Map(waste, LAMBDA w : QDiv(w.recycled, MathMax(w.amount, QInt(1)))))

\* waste.reduce((sum, w) => sum + w.recycled / Math.max(w.amount, 1), 0) / waste.length
WasteRecycleMean(waste) ==
    QDiv(SumQ(Map(waste,
                  LAMBDA w : QDiv(w.recycled, MathMax(w.amount, QInt(1))))),
         QInt(Len(waste)))

calculateMCI(input) ==
    LET totalMaterial == MaterialSum(input.rawMaterials)
        waterRecycleRate ==
            IF QGt(input.water.consumption, Zero)
            THEN QDiv(input.water.recycled, input.water.consumption)
            ELSE Zero
        renewableEnergy ==
            Filter(input.energy, LAMBDA e : e.type = "renewable")
        totalEnergy == SumQ(Map(input.energy, LAMBDA e : e.amount))
        renewableShare ==
            IF QGt(totalEnergy, Zero)
            THEN QDiv(SumQ(Map(renewableEnergy, LAMBDA e : e.amount)),
                      totalEnergy)
            ELSE Zero
        wasteRecycleRate ==
            IF Len(input.waste) # 0
            THEN WasteRecycleMean(input.waste)
            ELSE BENCHMARKS.waste_recycle_rate
        mci ==
            QMul(QAdd(QAdd(QMul(waterRecycleRate, Q(3, 10)),
                           QMul(renewableShare, Q(3, 10))),
                      QMul(wasteRecycleRate, Q(4, 10))),
                 QInt(100))
    IN  IF totalMaterial = Zero
        THEN Zero
        ELSE RoundTo(MathMin(QInt(100), mci), 10)

(***************************************************************************)
(* Sustainability scorer                                                   *)
(***************************************************************************)
\* the clamp without its floor at 0
Clamp100NoFloor(x) == MathMin(QInt(100), x)

\* Math.max(0, Math.min(100, x))
Clamp100(x) == MathMax(Zero, MathMin(QInt(100), x))

\* the grade chain with the A threshold one too high
GradeStrictA(overall) ==
    IF QGt(overall, QInt(80)) THEN "A"
    ELSE IF QGe(overall, QInt(65)) THEN "B"
    ELSE IF QGe(overall, QInt(50)) THEN "C"
    ELSE IF QGe(overall, QInt(35)) THEN "D"
    ELSE "F"

Grade(overall) ==
    IF QGe(overall, QInt(80)) THEN "A"
    ELSE IF QGe(overall, QInt(65)) THEN "B"
    ELSE IF QGe(overall, QInt(50)) THEN "C"
    ELSE IF QGe(overall, QInt(35)) THEN "D"
    ELSE "F"

\* the weighted sum cut down to an integer instead of rounded
OverallTruncated(gwpScore, energyScore, waterScore, wasteScore, mciScore) ==
    MathRound(
        QSub(QAdd(QAdd(QAdd(QAdd(QMul(gwpScore, Q(30, 100)),
                                 QMul(energyScore, Q(25, 100))),
                            QMul(waterScore, Q(15, 100))),
                       QMul(wasteScore, Q(15, 100))),
                  QMul(mciScore, Q(15, 100))),
             Q(1, 2)))

\* Math.round(gwpScore * 0.30 + energyScore * 0.25 + waterScore * 0.15
\*            + wasteScore * 0.15 + mciScore * 0.15)
Overall(gwpScore, energyScore, waterScore, wasteScore, mciScore) ==
    MathRound(
        QAdd(QAdd(QAdd(QAdd(QMul(gwpScore, Q(30, 100)),
                            QMul(energyScore, Q(25, 100))),
                       QMul(waterScore, Q(15, 100))),
                  QMul(wasteScore, Q(15, 100))),
             QMul(mciScore, Q(15, 100))))

calculateSustainabilityScore(input, gwp, energyIntensity, waterFootprint) ==
    LET totalMaterial == OrElse(MaterialSum(input.rawMaterials), QInt(1000))
        gwpPerTonne == QMul(QDiv(gwp, totalMaterial), QInt(1000))
        gwpScore == Clamp100(QSub(QInt(100), QDiv(gwpPerTonne, QInt(20))))
        energyScore ==
            Clamp100(QSub(QInt(100), QDiv(energyIntensity, QInt(1))))
        waterPerTonne == QMul(QDiv(waterFootprint, totalMaterial), QInt(1000))
        waterScore ==
            Clamp100(QSub(QInt(100), QDiv(waterPerTonne, Q(1, 10))))
        wasteRecycleRate ==
            IF Len(input.waste) # 0
            THEN QMul(WasteRecycleMean(input.waste), QInt(100))
            ELSE QMul(QDiv(input.water.recycled,
                           MathMax(input.water.consumption, QInt(1))),
                      QInt(100))
        wasteScore == MathMin(QInt(100), wasteRecycleRate)
        mciScore == calculateMCI(input)
        overall ==
            Overall(gwpScore, energyScore, waterScore, wasteScore, mciScore)
    IN  [overall     |-> overall,
         gwpScore    |-> MathRound(gwpScore),
         energyScore |-> MathRound(energyScore),
         waterScore  |-> MathRound(waterScore),
         wasteScore  |-> MathRound(wasteScore),
         mciScore    |-> MathRound(mciScore),
         grade       |-> Grade(overall)]

(***************************************************************************)
(* Hotspot analyzer                                                        *)
(***************************************************************************)

\* the insertion of an unstable sort: an element goes ahead of the earlier
\* elements it equals
RECURSIVE InsertByContributionAhead(_, _)
InsertByContributionAhead(sorted, x) ==
    IF sorted = <<>> THEN <<x>>
    ELSE IF QLt(QSub(x.contribution, Head(sorted).contribution), Zero)
         THEN <<Head(sorted)>> \o InsertByContributionAhead(Tail(sorted), x)
         ELSE <<x>> \o sorted

\* hotspots.sort((a, b) => b.contribution - a.contribution): stable, so an
\* element goes behind every earlier element it does not strictly exceed
RECURSIVE InsertByContribution(_, _)
InsertByContribution(sorted, x) ==
    IF sorted = <<>> THEN <<x>>
    ELSE IF QLe(QSub(x.contribution, Head(sorted).contribution), Zero)
         THEN <<Head(sorted)>> \o InsertByContribution(Tail(sorted), x)
         ELSE <<x>> \o sorted

RECURSIVE SortByContribution(_)
SortByContribution(s) ==
    IF s = <<>> THEN <<>>
    ELSE InsertByContribution(SortByContribution(SubSeq(s, 1, Len(s) - 1)),
                              s[Len(s)])

Hotspot(area, impact, contribution, recommendation) ==
    [area |-> area, impact |-> impact, contribution |-> contribution,
     recommendation |-> recommendation]

\* the energy block with the test energyGWP > 0 left out
EnergyHotspotUnguarded(input, totalGWP) ==
    LET energyGWP ==
            SumQ(Map(input.energy,
                     LAMBDA e : QMul(e.amount, EnergyFactor(e.type))))
        contribution == QMul(QDiv(energyGWP, totalGWP), QInt(100))
    IN  << Hotspot("Energy Consumption", energyGWP, MathRound(contribution),
                   "Optimize energy efficiency through process improvements") >>

\* each block returns what it pushes: one hotspot or nothing
EnergyHotspot(input, totalGWP) ==
    LET energyGWP ==
            SumQ(Map(input.energy,
                     LAMBDA e : QMul(e.amount, EnergyFactor(e.type))))
        contribution == QMul(QDiv(energyGWP, totalGWP), QInt(100))
    IN  IF QGt(energyGWP, Zero)
        THEN << Hotspot("Energy Consumption", energyGWP,
                        MathRound(contribution),
                        IF QGt(contribution, QInt(40))
                        THEN "PRIORITY: Transition to renewable energy sources - potential 80%+ reduction"
                        ELSE "Optimize energy efficiency through process improvements") >>
        ELSE <<>>

\* the transport block with the division by 1000 left out
TransportHotspotPerKg(input, totalGWP) ==
    LET transportGWP ==
            SumQ(Map(input.transport,
                     LAMBDA t : QMul(QMul(t.distance, t.loadWeight),
                                     TRANSPORT_FACTORS[t.mode])))
        contribution == QMul(QDiv(transportGWP, totalGWP), QInt(100))
    IN  IF QGt(transportGWP, Zero)
        THEN << Hotspot("Transportation", transportGWP,
                        MathRound(contribution),
                        "Consider local sourcing to reduce transport distances") >>
        ELSE <<>>

TransportHotspot(input, totalGWP) ==
    LET transportGWP == SumQ(Map(input.transport, TransportTerm))
        contribution == QMul(QDiv(transportGWP, totalGWP), QInt(100))
    IN  IF QGt(transportGWP, Zero)
        THEN << Hotspot("Transportation", transportGWP,
                        MathRound(contribution),
                        IF QGt(contribution, QInt(20))
                        THEN "PRIORITY: Shift to rail/ship transport or optimize routes"
                        ELSE "Consider local sourcing to reduce transport distances") >>
        ELSE <<>>

DirectHotspot(input, totalGWP) ==
    LET directGWP ==
            SumQ(Map(input.emissions,
                     LAMBDA e : QMul(e.amount, GwpFactor(e.type))))
        contribution == QMul(QDiv(directGWP, totalGWP), QInt(100))
    IN  IF QGt(directGWP, Zero)
        THEN << Hotspot("Direct Process Emissions", directGWP,
                        MathRound(contribution),
                        IF QGt(contribution, QInt(30))
                        THEN "PRIORITY: Implement emission capture or process optimization"
                        ELSE "Monitor and report emissions for continuous improvement") >>
        ELSE <<>>

WaterHotspot(input, totalGWP) ==
    LET waterGWP == QMul(input.water.consumption, WATER_FACTOR)
        contribution == QMul(QDiv(waterGWP, totalGWP), QInt(100))
        recycleRate ==
            QMul(QDiv(input.water.recycled, input.water.consumption),
                 QInt(100))
    IN  IF QGt(waterGWP, Zero)
        THEN << Hotspot("Water Usage", waterGWP, MathRound(contribution),
                        IF QLt(recycleRate, QInt(50))
                        THEN "Implement closed-loop water recycling systems"
                        ELSE "Good recycling rate - focus on water treatment efficiency") >>
        ELSE <<>>

identifyHotspots(input) ==
    LET totalGWP == calculateGWP(input)
    IN  IF totalGWP = Zero
        THEN <<>>
        ELSE SortByContribution(EnergyHotspot(input, totalGWP)
                                    \o TransportHotspot(input, totalGWP)
                                    \o DirectHotspot(input, totalGWP)
                                    \o WaterHotspot(input, totalGWP))

(***************************************************************************)
(* Goal alignment classifier (titles and descriptions are not modelled)    *)
(***************************************************************************)
\* the classifier with the two upper thresholds taken inclusively
calculateSDGAlignmentInclusive(input, gwp) ==
    LET renewableEnergy ==
            Filter(input.energy, LAMBDA e : e.type = "renewable")
        totalEnergy == SumQ(Map(input.energy, LAMBDA e : e.amount))
        renewableShare ==
            IF QGt(totalEnergy, Zero)
            THEN QMul(QDiv(SumQ(Map(renewableEnergy, LAMBDA e : e.amount)),
                           totalEnergy),
                      QInt(100))
            ELSE Zero
        recycleRate ==
            IF QGt(input.water.consumption, Zero)
            THEN QMul(QDiv(input.water.recycled, input.water.consumption),
                      QInt(100))
            ELSE Zero
        totalMaterial == OrElse(MaterialSum(input.rawMaterials), QInt(1))
        gwpPerTonne == QMul(QDiv(gwp, totalMaterial), QInt(1000))
    IN  << [sdg |-> 9,
            alignment |-> IF QGe(renewableShare, QInt(30)) THEN "positive"
                          ELSE IF QGt(renewableShare, QInt(10)) THEN "neutral"
                          ELSE "negative"],
           [sdg |-> 12,
            alignment |-> IF QGe(recycleRate, QInt(50)) THEN "positive"
                          ELSE IF QGt(recycleRate, QInt(25)) THEN "neutral"
                          ELSE "negative"],
           [sdg |-> 13,
            alignment |-> IF QLt(gwpPerTonne, QInt(500)) THEN "positive"
                          ELSE IF QLt(gwpPerTonne, QInt(1000)) THEN "neutral"
                          ELSE "negative"] >>

calculateSDGAlignment(input, gwp) ==
    LET renewableEnergy ==
            Filter(input.energy, LAMBDA e : e.type = "renewable")
        totalEnergy == SumQ(Map(input.energy, LAMBDA e : e.amount))
        renewableShare ==
            IF QGt(totalEnergy, Zero)
            THEN QMul(QDiv(SumQ(Map(renewableEnergy, LAMBDA e : e.amount)),
                           totalEnergy),
                      QInt(100))
            ELSE Zero
        recycleRate ==
            IF QGt(input.water.consumption, Zero)
            THEN QMul(QDiv(input.water.recycled, input.water.consumption),
                      QInt(100))
            ELSE Zero
        totalMaterial == OrElse(MaterialSum(input.rawMaterials), QInt(1))
        gwpPerTonne == QMul(QDiv(gwp, totalMaterial), QInt(1000))
    IN  << [sdg |-> 9,
            alignment |-> IF QGt(renewableShare, QInt(30)) THEN "positive"
                          ELSE IF QGt(renewableShare, QInt(10)) THEN "neutral"
                          ELSE "negative"],
           [sdg |-> 12,
            alignment |-> IF QGt(recycleRate, QInt(50)) THEN "positive"
                          ELSE IF QGt(recycleRate, QInt(25)) THEN "neutral"
                          ELSE "negative"],
           [sdg |-> 13,
            alignment |-> IF QLt(gwpPerTonne, QInt(500)) THEN "positive"
                          ELSE IF QLt(gwpPerTonne, QInt(1000)) THEN "neutral"
                          ELSE "negative"] >>

(***************************************************************************)
(* Result assembler.  The timestamp, the narrative recommendation strings  *)
(* and the fixed circular-economy suggestions are not modelled.            *)
(***************************************************************************)
\* an optional argument: absent, or the list that was passed
Absent == [present |-> FALSE, list |-> <<>>]

Given(list) == [present |-> TRUE, list |-> list]

Impact(category, value, benchmark, status) ==
    [category |-> category, value |-> value, benchmark |-> benchmark,
     status |-> status]

\* the truthiness test alone: an empty list counts as supplied
IsAIPoweredWhenPresent(aiRecommendations) == aiRecommendations.present

\* !!aiRecommendations && aiRecommendations.length > 0
IsAIPowered(aiRecommendations) ==
    aiRecommendations.present /\ Len(aiRecommendations.list) > 0

\* returns the heap after the call and the LCAResult
generateLCAResult(h, inputRef, aiRecommendations) ==
    LET v == validateAndApplyBenchmarks(h, inputRef)
        validatedInput == Deref(v.heap, v.validatedInput)
        gwp == calculateGWP(validatedInput)
        energyIntensity == calculateEnergyIntensity(validatedInput)
        waterFootprint == calculateWaterFootprint(validatedInput)
        hotspots == identifyHotspots(validatedInput)
        sdgAlignments == calculateSDGAlignment(validatedInput, gwp)
        sustainabilityScore ==
            calculateSustainabilityScore(validatedInput, gwp, energyIntensity,
                                         waterFootprint)
        impacts ==
            << Impact("Global Warming Potential (GWP)", gwp, QInt(1000),
                      IF QLt(gwp, QInt(500)) THEN "good"
                      ELSE IF QLt(gwp, QInt(1500)) THEN "warning"
                      ELSE "critical"),
               Impact("Energy Intensity", energyIntensity, QInt(50),
                      IF QLt(energyIntensity, QInt(30)) THEN "good"
                      ELSE IF QLt(energyIntensity, QInt(70)) THEN "warning"
                      ELSE "critical"),
               Impact("Water Footprint", waterFootprint, QInt(100),
                      IF QLt(waterFootprint, QInt(50)) THEN "good"
                      ELSE IF QLt(waterFootprint, QInt(150)) THEN "warning"
                      ELSE "critical") >>
    IN  [heap |-> v.heap,
         result |->
            [projectName         |-> validatedInput.projectName,
             impacts             |-> impacts,
             hotspots            |-> hotspots,
             sdgAlignments       |-> sdgAlignments,
             overallScore        |-> sustainabilityScore.overall,
             sustainabilityScore |-> sustainabilityScore,
             validationWarnings  |-> v.warnings,
             aiRecommendations   |-> aiRecommendations,
             isAIPowered         |-> IsAIPowered(aiRecommendations)]]

(***************************************************************************)
(* The inputs a caller may build.                                          *)
(***************************************************************************)
MaxQuantity == 1

MaxWater == 2

Material(quantity, unit) == [quantity |-> QInt(quantity), unit |-> unit]

Energy(type, amount, unit) ==
    [type |-> type, amount |-> QInt(amount), unit |-> unit]

Emission(type, amount) == [type |-> type, amount |-> QInt(amount)]

Leg(mode, distance, loadWeight) ==
    [mode |-> mode, distance |-> QInt(distance),
     loadWeight |-> QInt(loadWeight)]

Waste(amount, recycled) ==
    [amount |-> QInt(amount), recycled |-> QInt(recycled)]

MaterialLists ==
    { <<>>, << Material(0, "kg") >>,
      << Material(1, "tonnes"), Material(1, "L") >> }
        \cup { << Material(q, u) >> :
                 q \in 1..MaxQuantity, u \in {"kg", "tonnes", "L"} }

EnergyLists ==
    { <<>>,
      << Energy("electricity", 0, "kWh") >>,
      << Energy("electricity", 1, "kWh") >>,
      << Energy("renewable", 1, "kWh") >>,
      << Energy("natural_gas", 90, "MJ") >>,
      << Energy("electricity", 3, "kWh"), Energy("renewable", 1, "kWh") >> }

EmissionLists ==
    { <<>>,
      << Emission(<<"C", "O", "2">>, 0) >>,
      << Emission(<<"C", "O", "2">>, 1) >>,
      << Emission(<<"C", "H", "4">>, 1) >>,
      << Emission(<<"S", "O", "2">>, 1), Emission(<<"N", "O", "x">>, 1) >> }

\* discharge is never read by the engine; it is given the value of recycled
WaterRecords ==
    { [consumption |-> QInt(c), discharge |-> QInt(r), recycled |-> QInt(r)] :
        c \in 0..MaxWater, r \in 0..MaxWater }

TransportLists ==
    { <<>>,
      << Leg("truck", 0, 1000) >>,
      << Leg("ship", 1, 100) >>,
      << Leg("ship", 1, 1000) >>,
      << Leg("truck", 150, 1000), Leg("rail", 500, 1000) >> }

WasteLists ==
    { <<>>, << Waste(0, 2) >>, << Waste(4, 1), Waste(2, 1) >> }

ProjectNames == { <<>>, <<" ">>, <<"C", "u">> }

AiLists == { Absent, Given(<<>>), Given(<<"r1">>) }

(***************************************************************************)
(* The state machine.                                                      *)
(***************************************************************************)
NotCalled == <<>>

LCAInput(name, materials, energy, emissions, water, transport, waste) ==
    [projectName |-> name, rawMaterials |-> materials, energy |-> energy,
     emissions |-> emissions, water |-> water, transport |-> transport,
     waste |-> waste]

\* every combination of materials, energy, emissions, water and transport,
\* for a named project without waste data
EngineInputs ==
    { LCAInput(<<"C", "u">>, materials, energy, emissions, water, transport,
               <<>>) :
        materials \in MaterialLists, energy \in EnergyLists,
        emissions \in EmissionLists, water \in WaterRecords,
        transport \in TransportLists }

\* every combination of project name, waste, materials and water, with and
\* without the other data
WasteInputs ==
    { LCAInput(name, materials, core[1], core[2], water, core[3], waste) :
        name \in ProjectNames, waste \in WasteLists,
        materials \in MaterialLists, water \in WaterRecords,
        core \in { << <<>>, <<>>, <<>> >>,
                   << << Energy("electricity", 3, "kWh"),
                         Energy("renewable", 1, "kWh") >>,
                      << Emission(<<"C", "O", "2">>, 1) >>,
                      << Leg("ship", 1, 1000) >> >> } }

\* one unit of grid electricity beside a ship leg of nearly the same GWP
TieInputs ==
    { LCAInput(<<"C", "u">>, materials,
               << Energy("electricity", 1, "kWh") >>, <<>>, water,
               << Leg("ship", distance, 1000) >>, <<>>) :
        materials \in MaterialLists, water \in WaterRecords,
        distance \in {53, 54} }

\* loadSampleData; the fields the engine never reads (material name and
\* source, emission unit, water unit, process type) are left out, and the
\* form submits no waste entries
CopperSample ==
    LCAInput(<<"C", "o", "p", "p", "e", "r", " ", "E", "x", "t", "r", "a",
               "c", "t", "i", "o", "n", " ", "P", "r", "o", "c", "e", "s",
               "s">>,
             << Material(10000, "kg"), Material(500, "kg"),
                Material(5000, "L") >>,
             << Energy("electricity", 15000, "kWh"),
                Energy("diesel", 800, "L"),
                Energy("renewable", 3000, "kWh") >>,
             << Emission(<<"C", "O", "2">>, 8500),
                Emission(<<"S", "O", "2">>, 120),
                Emission(<<"N", "O", "x">>, 45) >>,
             [consumption |-> QInt(5000), discharge |-> QInt(3500),
              recycled |-> QInt(2000)],
             << Leg("truck", 150, 10000), Leg("rail", 500, 10000) >>,
             <<>>)

\* energy given in a unit that is neither kWh nor MJ, alone and beside MJ
UnitInputs ==
    { LCAInput(<<"C", "u">>, materials, energy, <<>>,
               [consumption |-> QInt(1), discharge |-> Zero,
                recycled |-> Zero],
               <<>>, <<>>) :
        materials \in MaterialLists,
        energy \in { << Energy("diesel", 2, "L") >>,
                     << Energy("natural_gas", 90, "MJ"),
                        Energy("coal", 1, "GJ") >> } }


\* grid electricity beside direct CO2, with an energy share just above and
\* just below 40 % of the total
ThresholdInputs ==
    { LCAInput(<<"C", "u">>, materials,
               << Energy("electricity", 100, "kWh") >>,
               << Emission(<<"C", "O", "2">>, amount) >>, water, <<>>, <<>>) :
        materials \in MaterialLists, water \in WaterRecords,
        amount \in {65, 66} }


\* less than one cubic metre of water, half of it recycled
FractionalWaterInputs ==
    { LCAInput(<<"C", "u">>, materials, energy, <<>>,
               [consumption |-> Q(1, 2), discharge |-> Q(1, 4),
                recycled |-> Q(1, 4)],
               <<>>, <<>>) :
        materials \in MaterialLists, energy \in EnergyLists }

Inputs ==
    EngineInputs \cup WasteInputs \cup TieInputs \cup UnitInputs
        \cup ThresholdInputs \cup FractionalWaterInputs \cup {CopperSample}

\* the caller's LCAInput: one object, and one cell for each array and for
\* the water record it refers to
Init ==
    \E input \in Inputs :
        /\ heap = << [projectName |-> input.projectName, rawMaterials |-> 2,
                      energy |-> 3, emissions |-> 4, water |-> 5,
                      transport |-> 6, waste |-> 7],
                     input.rawMaterials, input.energy, input.emissions,
                     input.water, input.transport, input.waste >>
        /\ callerInput = 1
        /\ given = input
        /\ pc = "ready"
        /\ norm = NotCalled
        /\ renorm = NotCalled
        /\ result = NotCalled
        /\ direct = NotCalled
        /\ passedRecommendations = NotCalled
        /\ form = NotCalled
        /\ pending = <<>>
        /\ submitted = NotCalled
        /\ view = NotCalled
        /\ user = NotCalled

\* const { validatedInput, warnings } = validateAndApplyBenchmarks(input)
Normalize ==
    /\ pc = "ready"
    /\ \E v \in { validateAndApplyBenchmarks(heap, callerInput) } :
           /\ heap' = v.heap
           /\ norm' = [validatedInput |-> v.validatedInput,
                       warnings |-> v.warnings]
    /\ pc' = "normalized"
    /\ UNCHANGED <<view, user, callerInput, given, renorm, result, direct,
                   passedRecommendations, form, pending, submitted>>

\* validateAndApplyBenchmarks(validatedInput): the normalizer applied to its
\* own output
Renormalize ==
    /\ pc = "normalized"
    /\ \E v \in { validateAndApplyBenchmarks(heap, norm.validatedInput) } :
           /\ heap' = v.heap
           /\ renorm' = [validatedInput |-> v.validatedInput,
                         warnings |-> v.warnings]
    /\ pc' = "renormalized"
    /\ UNCHANGED <<view, user, callerInput, given, norm, result, direct,
                   passedRecommendations, form, pending, submitted>>

\* generateLCAResult(input, aiRecommendations)
Generate ==
    /\ pc = "ready"
    /\ \E ai \in AiLists :
         \E g \in { generateLCAResult(heap, callerInput, ai) } :
             /\ heap' = g.heap
             /\ result' = g.result
             /\ passedRecommendations' = ai
    /\ pc' = "generated"
    /\ UNCHANGED <<view, user, callerInput, given, norm, renorm, direct, form, pending,
                   submitted>>

\* the exported calculators applied to the caller's record as it is
Analyze ==
    /\ pc = "ready"
    /\ LET input == Deref(heap, callerInput)
           gwp == calculateGWP(input)
           energyIntensity == calculateEnergyIntensity(input)
           waterFootprint == calculateWaterFootprint(input)
       IN  direct' =
             [gwp |-> gwp,
              energyIntensity |-> energyIntensity,
              waterFootprint |-> waterFootprint,
              mci |-> calculateMCI(input),
              hotspots |-> identifyHotspots(input),
              sdgAlignments |-> calculateSDGAlignment(input, gwp),
              sustainabilityScore |->
                  calculateSustainabilityScore(input, gwp, energyIntensity,
                                               waterFootprint)]
    /\ pc' = "analyzed"
    /\ UNCHANGED <<view, user, heap, callerInput, given, norm, renorm, result,
                   passedRecommendations, form, pending, submitted>>

Next == Normalize \/ Renormalize \/ Generate \/ Analyze

Spec == Init /\ [][Next]_vars

(***************************************************************************)
(* The weighted sum of calculateSustainabilityScore on its own: five       *)
(* sub-scores are drawn, then one of them is raised, and the overall score *)
(* is computed before and after.                                           *)
(***************************************************************************)
MaxHalfScore == 2

\* sub-scores in steps of one half at the low end, and the ceiling
SubScores == { Q(k, 2) : k \in 0..MaxHalfScore } \cup { QInt(100) }

SubScoreNames ==
    {"gwpScore", "energyScore", "waterScore", "wasteScore", "mciScore"}

OverallOf(scores) ==
    Overall(scores.gwpScore, scores.energyScore, scores.waterScore,
            scores.wasteScore, scores.mciScore)

ScoreInit ==
    /\ given \in [SubScoreNames -> SubScores]
    /\ pc = "scoring"
    /\ direct = NotCalled
    /\ heap = <<>>
    /\ callerInput = 0
    /\ norm = NotCalled
    /\ renorm = NotCalled
    /\ result = NotCalled
    /\ passedRecommendations = NotCalled
    /\ form = NotCalled
    /\ pending = <<>>
    /\ submitted = NotCalled
    /\ view = NotCalled
    /\ user = NotCalled

\* the overall score of the drawn sub-scores, and of the same sub-scores
\* with one of them raised
ScoreRaised ==
    /\ pc = "scoring"
    /\ \E name \in SubScoreNames :
         \E higher \in { x \in SubScores : QGt(x, given[name]) } :
            direct' = [name   |-> name,
                       raised |-> higher,
                       before |-> OverallOf(given),
                       after  |-> OverallOf([given EXCEPT ![name] = higher])]
    /\ pc' = "scored"
    /\ UNCHANGED <<view, user, heap, callerInput, given, norm, renorm, result,
                   passedRecommendations, form, pending, submitted>>

ScoreNext == ScoreRaised

ScoreSpec == ScoreInit /\ [][ScoreNext]_vars

(***************************************************************************)
(* The input form (LCAInputForm).  Text the user types and the cells of a  *)
(* CSV file are strings; the numeric fields are parsed from them.          *)
(***************************************************************************)
DigitChars == <<"0", "1", "2", "3", "4", "5", "6", "7", "8", "9">>

DigitOf(c) == (CHOOSE i \in 1..10 : DigitChars[i] = c) - 1

\* the longest prefix of s made of decimal digits
RECURSIVE DigitPrefix(_)
DigitPrefix(s) ==
    IF s # <<>> /\ Head(s) \in Digits
    THEN <<Head(s)>> \o DigitPrefix(Tail(s))
    ELSE <<>>

\* the value of a string of decimal digits
RECURSIVE DigitsValue(_)
DigitsValue(digits) ==
    IF digits = <<>> THEN 0
    ELSE 10 * DigitsValue(SubSeq(digits, 1, Len(digits) - 1))
            + DigitOf(digits[Len(digits)])

RECURSIVE Pow10(_)
Pow10(k) == IF k = 0 THEN 1 ELSE 10 * Pow10(k - 1)

\* not a number: 0/0
NaN == <<0, 0>>

\* digits [ "." digits ] at the start of s, at least one digit in all; what
\* follows is ignored (exponents are not modelled)
ParseUnsigned(s) ==
    IF DigitPrefix(s) = <<>>
    THEN IF s # <<>> /\ Head(s) = "." /\ DigitPrefix(Tail(s)) # <<>>
         THEN Q(DigitsValue(DigitPrefix(Tail(s))),
                Pow10(Len(DigitPrefix(Tail(s)))))
         ELSE NaN
    ELSE IF Len(s) > Len(DigitPrefix(s)) /\ s[Len(DigitPrefix(s)) + 1] = "."
         THEN QAdd(QInt(DigitsValue(DigitPrefix(s))),
                   Q(DigitsValue(DigitPrefix(SubSeq(s, Len(DigitPrefix(s)) + 2,
                                                    Len(s)))),
                     Pow10(Len(DigitPrefix(SubSeq(s, Len(DigitPrefix(s)) + 2,
                                                  Len(s)))))))
         ELSE QInt(DigitsValue(DigitPrefix(s)))

Negate(x) == IF x = NaN THEN NaN ELSE <<-x[1], x[2]>>

\* after leading white space and an optional sign
ParseSigned(s) ==
    IF s # <<>> /\ Head(s) = "-" THEN Negate(ParseUnsigned(Tail(s)))
    ELSE IF s # <<>> /\ Head(s) = "+" THEN ParseUnsigned(Tail(s))
    ELSE ParseUnsigned(s)

\* parseFloat
ParseFloat(s) == ParseSigned(TrimStart(s))

\* parseFloat(s) || 0
ParseFloatOrZero(s) == IF ParseFloat(s) = NaN THEN Zero ELSE ParseFloat(s)

\* a || b on strings: b when a is empty or undefined
OrText(a, b) == IF a = <<>> THEN b ELSE a

\* the rows of the form; source, process type and the units of emissions
\* and water are carried along by the program and read by nothing
NamedMaterial(name, quantity, unit) ==
    [name |-> name, quantity |-> quantity, unit |-> unit]

defaultWater == [consumption |-> Zero, discharge |-> Zero, recycled |-> Zero]

\* the useState initial values
DefaultForm ==
    [projectName  |-> <<>>,
     rawMaterials |-> << NamedMaterial(<<>>, Zero, "kg") >>,
     energy       |-> << Energy("electricity", 0, "kWh") >>,
     emissions    |-> << Emission(<<"C", "O", "2">>, 0) >>,
     transport    |-> << Leg("truck", 0, 0) >>,
     water        |-> defaultWater]

\* the filters applied to the rows before they are handed over
KeepMaterialNamed(m) == m.name # <<>>

KeepMaterial(m) == m.name # <<>> /\ QGt(m.quantity, Zero)

KeepEnergy(e) == QGt(e.amount, Zero)

KeepEmission(e) == e.type # <<>> /\ QGt(e.amount, Zero)

KeepLeg(t) == QGt(t.distance, Zero)

\* what onSubmit receives, and from which handler
Handed(by, projectName, rawMaterials, energy, emissions, water, transport) ==
    [by |-> by,
     data |-> [projectName  |-> projectName,
               rawMaterials |-> Filter(rawMaterials, KeepMaterial),
               energy       |-> Filter(energy, KeepEnergy),
               emissions    |-> Filter(emissions, KeepEmission),
               water        |-> water,
               transport    |-> Filter(transport, KeepLeg)]]

\* a parsed CSV row is a record of its cells by header; a header the file
\* does not have reads as undefined, which is as false as the empty string
Cell(row, header) == IF header \in DOMAIN row THEN row[header] ELSE <<>>

CsvMaterialName(row) ==
    OrText(Cell(row, "material_name"), Cell(row, "materialName"))

CsvMaterials(data) ==
    Map(Filter(data, LAMBDA row : CsvMaterialName(row) # <<>>),
        LAMBDA row : NamedMaterial(CsvMaterialName(row),
                                   ParseFloatOrZero(Cell(row, "quantity")),
                                   OrText(Cell(row, "unit"), <<"k", "g">>)))

CsvEnergyType(row) == OrText(Cell(row, "energy_type"), Cell(row, "energyType"))

CsvEnergy(data) ==
    Map(Filter(data, LAMBDA row : CsvEnergyType(row) # <<>>),
        LAMBDA row :
            [type   |-> CsvEnergyType(row),
             amount |-> ParseFloatOrZero(OrText(Cell(row, "energy_amount"),
                                                Cell(row, "energyAmount"))),
             unit   |-> OrText(OrText(Cell(row, "energy_unit"),
                                      Cell(row, "energyUnit")), <<"k", "W", "h">>)])

CsvEmissionType(row) ==
    OrText(OrText(Cell(row, "emission_type"), Cell(row, "emissionType")),
           Cell(row, "emission"))

CsvEmissions(data) ==
    Map(Filter(data, LAMBDA row : CsvEmissionType(row) # <<>>),
        LAMBDA row :
            [type   |-> CsvEmissionType(row),
             amount |-> ParseFloatOrZero(OrText(Cell(row, "emission_amount"),
                                                Cell(row, "emissionAmount")))])

CsvTransportMode(row) ==
    OrText(OrText(Cell(row, "transport_mode"), Cell(row, "transportMode")),
           Cell(row, "transport"))

CsvTransport(data) ==
    Map(Filter(data, LAMBDA row : CsvTransportMode(row) # <<>>),
        LAMBDA row :
            [mode       |-> CsvTransportMode(row),
             distance   |-> ParseFloatOrZero(Cell(row, "distance")),
             loadWeight |-> ParseFloatOrZero(OrText(Cell(row, "load_weight"),
                                                    Cell(row, "loadWeight")))])

\* data.find(row => row.water_consumption || row.waterConsumption), as the
\* list of the rows found
CsvWaterRows(data) ==
    Filter(data, LAMBDA row : OrText(Cell(row, "water_consumption"),
                                     Cell(row, "waterConsumption")) # <<>>)

CsvWaterOf(waterRow) ==
    [consumption |->
         ParseFloatOrZero(OrText(Cell(waterRow, "water_consumption"),
                                 Cell(waterRow, "waterConsumption"))),
     discharge |->
         ParseFloatOrZero(OrText(Cell(waterRow, "water_discharge"),
                                 Cell(waterRow, "waterDischarge"))),
     recycled |->
         ParseFloatOrZero(OrText(Cell(waterRow, "water_recycled"),
                                 Cell(waterRow, "waterRecycled")))]

\* s.replace(sub, ''): the first occurrence removed
RemoveFirst(s, sub) ==
    IF Includes(s, sub)
    THEN LET i == CHOOSE k \in 0..(Len(s) - Len(sub)) :
                      /\ SubSeq(s, k + 1, k + Len(sub)) = sub
                      /\ \A j \in 0..(k - 1) :
                            SubSeq(s, j + 1, j + Len(sub)) # sub
         IN  SubSeq(s, 1, i) \o SubSeq(s, i + Len(sub) + 1, Len(s))
    ELSE s

\* s.replace(/_/g, ' ')
UnderscoresToSpaces(s) == [i \in 1..Len(s) |-> IF s[i] = "_" THEN " " ELSE s[i]]

\* data[0] || {}
FirstRow(data) == IF data = <<>> THEN [none |-> <<>>] ELSE data[1]

\* the project name handleFileUpload settles on
UploadProjectName(file) ==
    OrText(OrText(OrText(Cell(FirstRow(file.data), "project_name"),
                         Cell(FirstRow(file.data), "projectName")),
                  UnderscoresToSpaces(
                      RemoveFirst(file.name, <<".", "c", "s", "v">>))),
           <<"L", "C", "A", " ", "A", "n", "a", "l", "y", "s", "i", "s", " ",
             "P", "r", "o", "j", "e", "c", "t">>)

\* inputData.rawMaterials.length > 0 || ... || inputData.water.consumption > 0
HasData(inputData) ==
    \/ Len(inputData.rawMaterials) > 0
    \/ Len(inputData.energy) > 0
    \/ Len(inputData.emissions) > 0
    \/ QGt(inputData.water.consumption, Zero)

\* the form state an import leaves behind and the automatic submit it
\* schedules: a list replaces the form's only when it has rows, the water
\* record only when a water row was found
Import(formNow, handed, materials, energyData, emissionsData, legs, waterRows) ==
    [form |->
        [projectName  |-> handed.data.projectName,
         rawMaterials |-> IF Len(materials) > 0 THEN materials
                          ELSE formNow.rawMaterials,
         energy       |-> IF Len(energyData) > 0 THEN energyData
                          ELSE formNow.energy,
         emissions    |-> IF Len(emissionsData) > 0 THEN emissionsData
                          ELSE formNow.emissions,
         transport    |-> IF Len(legs) > 0 THEN legs
                          ELSE formNow.transport,
         water        |-> IF waterRows # <<>> THEN CsvWaterOf(Head(waterRows))
                          ELSE formNow.water],
     pending |-> IF HasData(handed.data) THEN <<handed>> ELSE <<>>]

\* both imports: the rows parsed, filtered and handed over under the name
\* the caller settled on
ImportCsv(formNow, by, projectName, data) ==
    Import(formNow,
           Handed(by, projectName, CsvMaterials(data), CsvEnergy(data),
                  CsvEmissions(data),
                  IF CsvWaterRows(data) # <<>>
                  THEN CsvWaterOf(Head(CsvWaterRows(data)))
                  ELSE defaultWater,
                  CsvTransport(data)),
           CsvMaterials(data), CsvEnergy(data), CsvEmissions(data),
           CsvTransport(data), CsvWaterRows(data))

\* the cells a numeric column may hold
NumCells ==
    { <<>>, <<"0">>, <<"-", "1">>, <<"x">>, <<"1", ".", "5">>,
      <<" ", "7", "k">> }

\* a row whose cells are all empty
BlankRow == [project_name |-> <<>>]

\* rows in which one group of columns varies beside good ones, and rows that
\* have the material columns only
CsvRows ==
    LET GoodMaterial ==
            [material_name |-> <<"O", "r", "e">>, quantity |-> <<"5">>]
        GoodEnergy ==
            [energy_type |-> <<"c", "o", "a", "l">>, energy_amount |-> <<"5">>]
        GoodEmission ==
            [emission_type |-> <<"C", "O", "2">>, emission_amount |-> <<"5">>]
        GoodTransport ==
            [transport_mode |-> <<"r", "a", "i", "l">>, distance |-> <<"5">>]
        GoodRest ==
            [project_name |-> <<"P">>, water_consumption |-> <<"3">>,
             water_recycled |-> <<"1">>]
        MaterialCells ==
            { [material_name |-> name, quantity |-> q] :
                name \in { <<>>, <<"O", "r", "e">> }, q \in NumCells }
              \cup { [materialName |-> <<"O", "r", "e">>, quantity |-> q] :
                       q \in NumCells }
        EnergyCells ==
            { [energy_type |-> type, energy_amount |-> q] :
                type \in { <<>>, <<"c", "o", "a", "l">> }, q \in NumCells }
        EmissionCells ==
            { [emission_type |-> type, emission_amount |-> q] :
                type \in { <<>>, <<"C", "O", "2">> }, q \in NumCells }
              \cup { [emission |-> <<"C", "H", "4">>, emission_amount |-> q] :
                       q \in NumCells }
        TransportCells ==
            { [transport_mode |-> mode, distance |-> q] :
                mode \in { <<>>, <<"r", "a", "i", "l">> }, q \in NumCells }
    IN  { m @@ GoodEnergy @@ GoodEmission @@ GoodTransport @@ GoodRest :
            m \in MaterialCells }
          \cup { GoodMaterial @@ e @@ GoodEmission @@ GoodTransport @@ GoodRest :
                   e \in EnergyCells }
          \cup { GoodMaterial @@ GoodEnergy @@ e @@ GoodTransport @@ GoodRest :
                   e \in EmissionCells }
          \cup { GoodMaterial @@ GoodEnergy @@ GoodEmission @@ t @@ GoodRest :
                   t \in TransportCells }
          \cup MaterialCells

CsvFiles ==
    { [name |-> name, data |-> data] :
        name \in { <<".", "c", "s", "v">>,
                   <<"a", "_", "b", ".", "c", "s", "v">> },
        data \in { <<>>, <<BlankRow>> } }
      \cup { [name |-> <<"a", "_", "b", ".", "c", "s", "v">>,
               data |-> <<row>>] : row \in CsvRows }
      \cup { [name |-> <<"a", "_", "b", ".", "c", "s", "v">>,
               data |-> <<row, BlankRow>>] : row \in CsvRows }

\* the CSV text of loadSampleCSV as Papa.parse returns it (header: true)
SampleCsv ==
    <<
      [
        project_name |->
            <<"I", "r", "o", "n", " ", "O", "r", "e", " ", "P", "r", "o",
              "c", "e", "s", "s", "i", "n", "g", " ", "P", "r", "o", "j",
              "e", "c", "t">>,
        material_name |-> <<"I", "r", "o", "n", " ", "O", "r", "e">>,
        quantity |-> <<"5", "0", "0", "0", "0">>,
        unit |-> <<"k", "g">>,
        energy_type |->
            <<"e", "l", "e", "c", "t", "r", "i", "c", "i", "t", "y">>,
        energy_amount |-> <<"8", "0", "0", "0">>,
        energy_unit |-> <<"k", "W", "h">>,
        emission_type |-> <<"C", "O", "2">>,
        emission_amount |-> <<"4", "0", "0", "0">>,
        transport_mode |-> <<"t", "r", "u", "c", "k">>,
        distance |-> <<"2", "0", "0">>,
        load_weight |-> <<"5", "0", "0", "0", "0">>,
        water_consumption |-> <<"1", "0", "0", "0">>,
        water_discharge |-> <<"3", "0", "0">>,
        water_recycled |-> <<"2", "0", "0">> ],
      [
        project_name |->
            <<"I", "r", "o", "n", " ", "O", "r", "e", " ", "P", "r", "o",
              "c", "e", "s", "s", "i", "n", "g", " ", "P", "r", "o", "j",
              "e", "c", "t">>,
        material_name |-> <<"C", "o", "k", "e">>,
        quantity |-> <<"5", "0", "0", "0">>,
        unit |-> <<"k", "g">>,
        energy_type |-> <<"c", "o", "a", "l">>,
        energy_amount |-> <<"2", "0", "0", "0">>,
        energy_unit |-> <<"k", "W", "h">>,
        emission_type |-> <<"C", "O", "2">>,
        emission_amount |-> <<"1", "5", "0", "0">>,
        transport_mode |-> <<"r", "a", "i", "l">>,
        distance |-> <<"3", "0", "0">>,
        load_weight |-> <<"5", "0", "0", "0">>,
        water_consumption |-> <<>>,
        water_discharge |-> <<>>,
        water_recycled |-> <<>> ],
      [
        project_name |->
            <<"I", "r", "o", "n", " ", "O", "r", "e", " ", "P", "r", "o",
              "c", "e", "s", "s", "i", "n", "g", " ", "P", "r", "o", "j",
              "e", "c", "t">>,
        material_name |-> <<"L", "i", "m", "e", "s", "t", "o", "n", "e">>,
        quantity |-> <<"3", "0", "0", "0">>,
        unit |-> <<"k", "g">>,
        energy_type |->
            <<"e", "l", "e", "c", "t", "r", "i", "c", "i", "t", "y">>,
        energy_amount |-> <<"5", "0", "0">>,
        energy_unit |-> <<"k", "W", "h">>,
        emission_type |-> <<"C", "O", "2">>,
        emission_amount |-> <<"2", "5", "0">>,
        transport_mode |-> <<"t", "r", "u", "c", "k">>,
        distance |-> <<"5", "0">>,
        load_weight |-> <<"3", "0", "0", "0">>,
        water_consumption |-> <<>>,
        water_discharge |-> <<>>,
        water_recycled |-> <<>> ] >>

\* what loadSampleData sets
CopperForm ==
    [projectName  |-> CopperSample.projectName,
     rawMaterials |->
         << NamedMaterial(<<"C", "o", "p", "p", "e", "r", " ", "O", "r", "e">>,
                          QInt(10000), "kg"),
            NamedMaterial(<<"S", "u", "l", "f", "u", "r", "i", "c", " ", "A",
                            "c", "i", "d">>,
                          QInt(500), "kg"),
            NamedMaterial(<<"W", "a", "t", "e", "r">>, QInt(5000), "L") >>,
     energy       |-> CopperSample.energy,
     emissions    |-> CopperSample.emissions,
     transport    |-> CopperSample.transport,
     water        |-> CopperSample.water]

MaxRows == 2

\* the numbers a numeric field holds after parseFloat(value) || 0
TypedNumbers ==
    { ParseFloatOrZero(text) : text \in { <<>>, <<"-", "1">>,
                                          <<"1", ".", "5">> } }

\* one to MaxRows rows
RowLists(rows) == UNION { [1..n -> rows] : n \in 1..MaxRows }

\* the default form with a project name typed and the rows of one section
\* edited
FormStates ==
    { [DefaultForm EXCEPT !.projectName = name, !.rawMaterials = rows] :
        name \in ProjectNames,
        rows \in RowLists({ NamedMaterial(n, q, "kg") :
                              n \in { <<>>, <<"O", "r", "e">> }, q \in TypedNumbers }) }
      \cup
    { [DefaultForm EXCEPT !.projectName = name, !.emissions = rows] :
        name \in ProjectNames,
        rows \in RowLists({ [type |-> t, amount |-> q] :
                              t \in { <<>>, <<"C", "O", "2">> }, q \in TypedNumbers }) }
      \cup
    { [DefaultForm EXCEPT !.projectName = <<"C", "u">>, !.energy = rows] :
        rows \in RowLists({ [type |-> "electricity", amount |-> q,
                             unit |-> "kWh"] : q \in TypedNumbers }) }
      \cup
    { [DefaultForm EXCEPT !.projectName = <<"C", "u">>, !.transport = rows] :
        rows \in RowLists({ [mode |-> "truck", distance |-> q,
                             loadWeight |-> QInt(1000)] :
                              q \in TypedNumbers }) }

FormInit ==
    /\ form \in FormStates
    /\ pending = <<>>
    /\ submitted = NotCalled
    /\ view = NotCalled
    /\ user = NotCalled
    /\ pc = "input"
    /\ heap = <<>>
    /\ callerInput = 0
    /\ given = NotCalled
    /\ norm = NotCalled
    /\ renorm = NotCalled
    /\ result = NotCalled
    /\ direct = NotCalled
    /\ passedRecommendations = NotCalled

\* the form's onSubmit handler; with a blank project name it returns after
\* a toast and changes nothing
handleSubmit ==
    /\ pc = "input"
    /\ Trim(form.projectName) # <<>>
    /\ submitted' = Handed("handleSubmit", form.projectName,
                           form.rawMaterials, form.energy, form.emissions,
                           form.water, form.transport)
    /\ pc' = "handed"
    /\ UNCHANGED <<view, user, form, pending, heap, callerInput, given, norm, renorm,
                   result, direct, passedRecommendations>>

\* a file chosen and parsed; one automatic submit is in flight at a time
handleFileUpload ==
    /\ pc = "input"
    /\ pending = <<>>
    /\ \E file \in CsvFiles :
         \E i \in { ImportCsv(form, "handleFileUpload",
                              UploadProjectName(file), file.data) } :
            /\ form' = i.form
            /\ pending' = i.pending
    /\ UNCHANGED <<view, user, submitted, pc, heap, callerInput, given, norm, renorm,
                   result, direct, passedRecommendations>>

loadSampleCSV ==
    /\ pc = "input"
    /\ pending = <<>>
    /\ \E i \in { ImportCsv(form, "loadSampleCSV",
                            OrText(OrText(Cell(FirstRow(SampleCsv),
                                               "project_name"),
                                          Cell(FirstRow(SampleCsv),
                                               "projectName")),
                                   SampleCsv[1].project_name),
                            SampleCsv) } :
         /\ form' = i.form
         /\ pending' = i.pending
    /\ UNCHANGED <<view, user, submitted, pc, heap, callerInput, given, norm, renorm,
                   result, direct, passedRecommendations>>

loadSampleData ==
    /\ pc = "input"
    /\ form' = CopperForm
    /\ UNCHANGED <<view, user, pending, submitted, pc, heap, callerInput, given, norm,
                   renorm, result, direct, passedRecommendations>>

\* the 500 ms timer of an import fires: onSubmit(inputData)
SubmitAfterDelay ==
    /\ pc = "input"
    /\ pending # <<>>
    /\ submitted' = Head(pending)
    /\ pending' = Tail(pending)
    /\ pc' = "handed"
    /\ UNCHANGED <<view, user, form, heap, callerInput, given, norm, renorm, result,
                   direct, passedRecommendations>>

FormNext ==
    \/ handleSubmit
    \/ handleFileUpload
    \/ loadSampleCSV
    \/ loadSampleData
    \/ SubmitAfterDelay

FormSpec == FormInit /\ [][FormNext]_vars

(***************************************************************************)
(* The multiplier lookup of calculateGWP on its own: an emission label is  *)
(* drawn and resolved.                                                     *)
(***************************************************************************)
MaxTokens == 3

\* pieces of emission labels: the species in mixed case, separators, and
\* fragments that make up a species only when joined
LabelTokens ==
    { <<"C", "O", "2">>,
      <<"c", "h", "4">>,
      <<"N", "2", "O">>,
      <<"S", "F", "6">>,
      <<"H", "F", "C">>,
      <<"p", "f", "c">>,
      <<"-">>,
      <<" ">>,
      <<"s">>,
      <<"C">>,
      <<"O", "2">>,
      <<"f", "6">> }

RECURSIVE Labels(_)
Labels(n) ==
    IF n = 0 THEN { <<>> }
    ELSE Labels(n - 1)
           \cup { label \o token : label \in Labels(n - 1),
                                   token \in LabelTokens }

LabelInit ==
    /\ given \in Labels(MaxTokens)
    /\ pc = "labelled"
    /\ direct = NotCalled
    /\ heap = <<>>
    /\ callerInput = 0
    /\ norm = NotCalled
    /\ renorm = NotCalled
    /\ result = NotCalled
    /\ passedRecommendations = NotCalled
    /\ form = NotCalled
    /\ pending = <<>>
    /\ submitted = NotCalled
    /\ view = NotCalled
    /\ user = NotCalled

\* const gwpFactor = ... for one emission
ResolveFactor ==
    /\ pc = "labelled"
    /\ direct' = [gwpFactor |-> GwpFactor(given)]
    /\ pc' = "resolved"
    /\ UNCHANGED <<view, user, heap, callerInput, given, norm, renorm, result,
                   passedRecommendations, form, pending, submitted>>

LabelNext == ResolveFactor

LabelSpec == LabelInit /\ [][LabelNext]_vars

(***************************************************************************)
(* The page (pages/Index.tsx): the view shown, the stored result and the   *)
(* signed-in user, with the input form as the source of submits.  The form *)
(* calls onSubmit at once for a manual submit and from a 500 ms timer for  *)
(* an import; no timer is ever cleared.  The handlers contain no await, so *)
(* each runs to its end in one step and isLoading is never seen true.      *)
(* companyName, which the engine never reads, and the toasts are left out. *)
(***************************************************************************)
MaxTimers == 3

\* records the form hands to onSubmit: one tonne of ore without further
\* data, and a record with energy, emissions, water and transport
PageInputs ==
    { LCAInput(<<"F", "e">>, << Material(1, "tonnes") >>, <<>>, <<>>,
               [consumption |-> Zero, discharge |-> Zero, recycled |-> Zero],
               <<>>, <<>>),
      LCAInput(<<"C", "u">>, << Material(1, "tonnes") >>,
               << Energy("electricity", 3, "kWh"),
                  Energy("renewable", 1, "kWh") >>,
               << Emission(<<"C", "O", "2">>, 1) >>,
               [consumption |-> QInt(2), discharge |-> QInt(1),
                recycled |-> QInt(1)],
               << Leg("ship", 1, 1000) >>, <<>>) }

\* the heap that holds one handed record
HeapOf(input) ==
    << [projectName |-> input.projectName, rawMaterials |-> 2, energy |-> 3,
        emissions |-> 4, water |-> 5, transport |-> 6, waste |-> 7],
       input.rawMaterials, input.energy, input.emissions, input.water,
       input.transport, input.waste >>

\* a recommendation list fetched from a service
aiRecommendationsFetched == <<"r1">>

\* let aiRecommendations: string[] = []
aiRecommendations == <<>>

\* Index's handleSubmit: inputWithCompany = { ...input, companyName },
\* initialResult = generateLCAResult(inputWithCompany),
\* lcaResult = generateLCAResult(inputWithCompany, aiRecommendations),
\* setResult(lcaResult), setView('results')
Index_handleSubmit(input) ==
    \E inputWithCompany \in { Spread(HeapOf(input), 1) } :
        \E initialResult \in { generateLCAResult(inputWithCompany.heap,
                                                 inputWithCompany.ref,
                                                 Absent) } :
            \E lcaResult \in { generateLCAResult(initialResult.heap,
                                                 inputWithCompany.ref,
                                                 Given(aiRecommendations)) } :
                /\ result' = << lcaResult.result >>
                /\ view' = "results"

PageInit ==
    /\ view = "landing"
    /\ result = NotCalled
    /\ user \in BOOLEAN
    /\ pending = <<>>
    /\ pc = "index"
    /\ form = NotCalled
    /\ submitted = NotCalled
    /\ heap = <<>>
    /\ callerInput = 0
    /\ given = NotCalled
    /\ norm = NotCalled
    /\ renorm = NotCalled
    /\ direct = NotCalled
    /\ passedRecommendations = NotCalled

\* the user signs in or out while the page is shown
AuthChanged ==
    /\ pc = "index"
    /\ user' = ~user
    /\ UNCHANGED <<view, result, pending, pc, form, submitted, heap,
                   callerInput, given, norm, renorm, direct,
                   passedRecommendations>>

\* without a user the page is left for /auth
handleStartAnalysis ==
    /\ pc = "index"
    /\ view = "landing"
    /\ IF user THEN view' = "input" /\ pc' = pc
               ELSE view' = view /\ pc' = "auth"
    /\ UNCHANGED <<user, result, pending, form, submitted, heap, callerInput,
                   given, norm, renorm, direct, passedRecommendations>>

\* the page is shown again: a new instance, whose timers are none
Remount ==
    /\ pc = "auth"
    /\ pc' = "index"
    /\ view' = "landing"
    /\ result' = NotCalled
    /\ pending' = <<>>
    /\ user' \in BOOLEAN
    /\ UNCHANGED <<form, submitted, heap, callerInput, given, norm, renorm,
                   direct, passedRecommendations>>

\* the calls of onSubmit a manual submit can make: the form is shown in the
\* input view only
onSubmit ==
    IF pc = "index" /\ view = "input"
    THEN { [input |-> input, pending |-> pending] : input \in PageInputs }
    ELSE {}

\* an import in the form shown in the input view:
\* setTimeout(() => onSubmit(inputData), 500)
ScheduleSubmit ==
    /\ pc = "index"
    /\ view = "input"
    /\ Len(pending) < MaxTimers
    /\ \E inputData \in PageInputs : pending' = Append(pending, inputData)
    /\ UNCHANGED <<view, user, result, pc, form, submitted, heap,
                   callerInput, given, norm, renorm, direct,
                   passedRecommendations>>

\* the call of onSubmit the oldest timer makes when it fires, whatever view
\* is shown
DelayedSubmit ==
    IF pending # <<>>
    THEN { [input |-> Head(pending), pending |-> Tail(pending)] }
    ELSE {}

\* onSubmit is called, by the form or by a timer, and the page's
\* handleSubmit runs; the setters of a page that was left do nothing
SubmitCalled ==
    /\ \E call \in onSubmit \cup DelayedSubmit :
          /\ pending' = call.pending
          /\ IF pc = "index" THEN Index_handleSubmit(call.input)
                             ELSE UNCHANGED <<view, result>>
    /\ UNCHANGED <<user, pc, form, submitted, heap, callerInput, given, norm,
                   renorm, direct, passedRecommendations>>

\* handleReset without setResult(null)
handleResetKeepingResult ==
    /\ pc = "index"
    /\ view = "results"
    /\ result # NotCalled
    /\ view' = "input"
    /\ UNCHANGED <<result, user, pending, pc, form, submitted, heap,
                   callerInput, given, norm, renorm, direct,
                   passedRecommendations>>

\* the buttons New Analysis and Reset of the results view
handleReset ==
    /\ pc = "index"
    /\ view = "results"
    /\ result # NotCalled
    /\ result' = NotCalled
    /\ view' = "input"
    /\ UNCHANGED <<user, pending, pc, form, submitted, heap, callerInput,
                   given, norm, renorm, direct, passedRecommendations>>

\* the button Back to Home of the input view
handleBackToLanding ==
    /\ pc = "index"
    /\ view = "input"
    /\ result' = NotCalled
    /\ view' = "landing"
    /\ UNCHANGED <<user, pending, pc, form, submitted, heap, callerInput,
                   given, norm, renorm, direct, passedRecommendations>>

PageNext ==
    \/ AuthChanged
    \/ handleStartAnalysis
    \/ Remount
    \/ ScheduleSubmit
    \/ SubmitCalled
    \/ handleReset
    \/ handleBackToLanding

PageSpec == PageInit /\ [][PageNext]_vars

(***************************************************************************)
(* Properties.                                                             *)
(***************************************************************************)
InRange(x) == QGe(x, Zero) /\ QLe(x, QInt(100))

ScoreInRange(score) ==
    /\ InRange(score.overall)
    /\ InRange(score.gwpScore)
    /\ InRange(score.energyScore)
    /\ InRange(score.waterScore)
    /\ InRange(score.wasteScore)
    /\ InRange(score.mciScore)

\* C1: every component of the SustainabilityScore and the MCI lie in
\* [0, 100], for the scorer applied to the caller's record and for the score
\* in the assembled result.
C1_ScoreBounds ==
    /\ pc = "analyzed" =>
          ScoreInRange(direct.sustainabilityScore) /\ InRange(direct.mci)
    /\ pc = "generated" => ScoreInRange(result.sustainabilityScore)

\* a score whose gwp part is held at the floor and whose waste part is held
\* at the ceiling
C1_Witness ==
    /\ pc = "analyzed"
    /\ direct.sustainabilityScore.gwpScore = Zero
    /\ direct.sustainabilityScore.wasteScore = QInt(100)
    /\ Len(given.waste) > 0

ContributionSum(hotspots) == SumQ(Map(hotspots, LAMBDA hs : hs.contribution))

\* C2: when total GWP > 0 the contributions of the returned hotspots sum to
\* a value between 99 and 101 (stated for the hotspots of an assembled
\* result, which identifyHotspots computed from the normalized record).
C2_ContributionSum ==
    (pc = "generated" /\ QGt(result.impacts[1].value, Zero)) =>
        /\ QGe(ContributionSum(result.hotspots), QInt(99))
        /\ QLe(ContributionSum(result.hotspots), QInt(101))

\* the categories of a record whose own GWP is positive
PositiveCategories(input) ==
    { area \in { "Energy Consumption", "Transportation",
                 "Direct Process Emissions", "Water Usage" } :
        \/ /\ area = "Energy Consumption"
           /\ \E i \in 1..Len(input.energy) : QGt(input.energy[i].amount, Zero)
        \/ /\ area = "Transportation"
           /\ \E i \in 1..Len(input.transport) :
                 /\ QGt(input.transport[i].distance, Zero)
                 /\ QGt(input.transport[i].loadWeight, Zero)
        \/ /\ area = "Direct Process Emissions"
           /\ \E i \in 1..Len(input.emissions) :
                 QGt(input.emissions[i].amount, Zero)
        \/ /\ area = "Water Usage"
           /\ QGt(input.water.consumption, Zero) }

Areas(hotspots) == { hotspots[i].area : i \in 1..Len(hotspots) }

\* C3: identifyHotspots returns nothing when total GWP is 0; otherwise it
\* returns one hotspot for exactly the categories whose own GWP is positive,
\* each once.
C3_HotspotCategories ==
    pc = "analyzed" =>
        IF direct.gwp = Zero
        THEN direct.hotspots = <<>>
        ELSE /\ Areas(direct.hotspots) = PositiveCategories(given)
             /\ Len(direct.hotspots) = Cardinality(Areas(direct.hotspots))

\* a positive total to which two categories contribute and two do not
C3_Witness ==
    /\ pc = "analyzed"
    /\ QGt(direct.gwp, Zero)
    /\ Len(direct.hotspots) = 2
    /\ Cardinality(PositiveCategories(given)) = 2

\* a positive category GWP under a total that rounds to 0
C3_WitnessZeroTotal ==
    /\ pc = "analyzed"
    /\ direct.gwp = Zero
    /\ PositiveCategories(given) # {}

GradeFits(score) ==
    LET o == score.overall[1]
        g == score.grade
    IN  /\ score.overall[2] = 1
        /\ g = "A" <=> o >= 80
        /\ g = "B" <=> (65 <= o /\ o < 80)
        /\ g = "C" <=> (50 <= o /\ o < 65)
        /\ g = "D" <=> (35 <= o /\ o < 50)
        /\ g = "F" <=> o < 35
        /\ g \in {"A", "B", "C", "D", "F"}

\* C4: the grade is decided by the overall score alone: A from 80, B from
\* 65, C from 50, D from 35, F below; exactly one grade applies.
C4_GradeConsistency ==
    /\ pc = "analyzed" => GradeFits(direct.sustainabilityScore)
    /\ pc = "generated" => GradeFits(result.sustainabilityScore)

\* an overall score exactly on the A threshold
C4_Witness ==
    /\ pc = "generated"
    /\ result.sustainabilityScore.overall = QInt(80)
    /\ result.sustainabilityScore.grade = "A"

\* the footprint is the net consumption to the nearest hundredth (a tie
\* going up), and 0 when nothing is left after recycling
FootprintFits(footprint, water) ==
    LET net == QSub(water.consumption, water.recycled)
    IN  /\ QGe(footprint, Zero)
        /\ IF QGe(water.recycled, water.consumption)
           THEN footprint = Zero
           ELSE /\ QMul(footprint, QInt(100))[2] = 1
                /\ QLt(QSub(net, footprint), Q(1, 200))
                /\ QLe(QSub(footprint, net), Q(1, 200))

\* C5: the water footprint is max(0, consumption - recycled) rounded to 2
\* decimals: never negative, and 0 whenever recycled >= consumption.
C5_WaterFootprint ==
    /\ pc = "analyzed" => FootprintFits(direct.waterFootprint, given.water)
    /\ pc = "generated" =>
          /\ QGe(result.impacts[3].value, Zero)
          /\ QGt(given.water.consumption, Zero) =>
                FootprintFits(result.impacts[3].value, given.water)

\* more water recycled than consumed
C5_Witness ==
    /\ pc = "analyzed"
    /\ QGt(given.water.consumption, Zero)
    /\ QGt(given.water.recycled, given.water.consumption)
    /\ direct.waterFootprint = Zero

\* the material mass the benchmarks are sized from
ClaimTotalMaterialKg(input) ==
    LET sum == SumQ([i \in 1..Len(input.rawMaterials) |->
                        IF input.rawMaterials[i].unit = "tonnes"
                        THEN QMul(input.rawMaterials[i].quantity, QInt(1000))
                        ELSE input.rawMaterials[i].quantity])
    IN  IF sum = Zero THEN QInt(1000) ELSE sum

ClaimNoEnergy(input) ==
    \A i \in 1..Len(input.energy) : input.energy[i].amount = Zero

HasBenchmarkWarning(warnings, field) ==
    \E i \in 1..Len(warnings) :
        warnings[i].field = field /\ warnings[i].usedBenchmark

WarningsFor(warnings, field) ==
    SelectSeq(warnings, LAMBDA w : w.field = field)

\* C6: an empty or all-zero energy list yields exactly one "Energy" warning,
\* with usedBenchmark = TRUE, and a normalized energy list of one
\* electricity entry of amount (totalMaterialKg / 1000) * 500.
C6_EnergyBenchmark ==
    (pc = "normalized" /\ ClaimNoEnergy(given)) =>
        LET validated == Deref(heap, norm.validatedInput)
            energyWarnings == WarningsFor(norm.warnings, "Energy")
        IN  /\ Len(energyWarnings) = 1
            /\ energyWarnings[1].usedBenchmark
            /\ Len(validated.energy) = 1
            /\ validated.energy[1].type = "electricity"
            /\ validated.energy[1].amount =
                  QMul(QDiv(ClaimTotalMaterialKg(given), QInt(1000)),
                       QInt(500))

\* an energy list that is not empty but all zero, with 1001 kg of material
C6_Witness ==
    /\ pc = "normalized"
    /\ Len(given.energy) > 0
    /\ ClaimNoEnergy(given)
    /\ ClaimTotalMaterialKg(given) = QInt(1001)
    /\ Deref(heap, norm.validatedInput).energy[1].amount = Q(1001, 2)

ClaimNoEmissions(input) ==
    \A i \in 1..Len(input.emissions) : input.emissions[i].amount = Zero

\* C7 as stated: normalizing the normalizer's output gives no warning and
\* an unchanged record.
C7_Idempotent ==
    pc = "renormalized" =>
        /\ renorm.warnings = <<>>
        /\ Deref(heap, renorm.validatedInput)
              = Deref(heap, norm.validatedInput)

\* C7 amended: normalizing the normalizer's output substitutes nothing and
\* leaves the record unchanged; its only warning is the informational
\* "Emissions" one, given exactly when the emissions are empty or all zero.
C7_IdempotentUpToEmissionsWarning ==
    pc = "renormalized" =>
        /\ Deref(heap, renorm.validatedInput)
              = Deref(heap, norm.validatedInput)
        /\ Len(renorm.warnings) = IF ClaimNoEmissions(given) THEN 1 ELSE 0
        /\ \A i \in 1..Len(renorm.warnings) :
              /\ renorm.warnings[i].field = "Emissions"
              /\ ~renorm.warnings[i].usedBenchmark

\* a second pass over a record whose energy, water and transport were all
\* substituted by the first
C7_Witness ==
    /\ pc = "renormalized"
    /\ HasBenchmarkWarning(norm.warnings, "Energy")
    /\ HasBenchmarkWarning(norm.warnings, "Water")
    /\ HasBenchmarkWarning(norm.warnings, "Transport")
    /\ renorm.warnings = <<>>

AllEmpty(input) ==
    /\ input.rawMaterials = <<>>
    /\ input.energy = <<>>
    /\ input.emissions = <<>>
    /\ input.transport = <<>>
    /\ input.water.consumption = Zero
    /\ input.water.discharge = Zero
    /\ input.water.recycled = Zero

\* C8: for the input with every list empty and all water values 0 a result
\* is returned; its warnings include the benchmark warnings Energy, Water
\* and Transport, and it has 3 impacts, a hotspot list and 3 alignments.
C8_EmptyInput ==
    (pc = "generated" /\ AllEmpty(given)) =>
        /\ HasBenchmarkWarning(result.validationWarnings, "Energy")
        /\ HasBenchmarkWarning(result.validationWarnings, "Water")
        /\ HasBenchmarkWarning(result.validationWarnings, "Transport")
        /\ Len(result.impacts) = 3
        /\ DOMAIN result.hotspots = 1..Len(result.hotspots)
        /\ Len(result.sdgAlignments) = 3

\* the result for the empty input: 232.14 kg CO2e from imputed data alone
C8_Witness ==
    /\ pc = "generated"
    /\ AllEmpty(given)
    /\ result.impacts[1].value = Q(23214, 100)
    /\ Len(result.hotspots) = 3

\* C10: the caller's record holds the values the caller gave it, whatever
\* has been called: the name, and every list and the water record.
C10_InputUnchanged ==
    /\ Deref(heap, callerInput) = given
    /\ heap[callerInput].rawMaterials = 2
    /\ heap[callerInput].energy = 3
    /\ heap[callerInput].emissions = 4
    /\ heap[callerInput].water = 5
    /\ heap[callerInput].transport = 6
    /\ heap[callerInput].waste = 7

\* a result for which energy, water, transport and the name were substituted
C10_Witness ==
    /\ pc = "generated"
    /\ HasBenchmarkWarning(result.validationWarnings, "Energy")
    /\ HasBenchmarkWarning(result.validationWarnings, "Water")
    /\ HasBenchmarkWarning(result.validationWarnings, "Transport")
    /\ result.projectName = DefaultProjectName
    /\ given.projectName # DefaultProjectName

\* C11: for every input with total GWP > 0 the first hotspot that
\* identifyHotspots returns has the largest kg-CO2e impact: no returned
\* hotspot has a strictly larger impact (a category that is not returned
\* has no positive impact).
C11_DominantFirst ==
    (pc = "analyzed" /\ QGt(direct.gwp, Zero)) =>
        /\ direct.hotspots # <<>>
        /\ \A i \in 1..Len(direct.hotspots) :
              QLe(direct.hotspots[i].impact, direct.hotspots[1].impact)

\* C12: for the copper sample generateLCAResult yields water footprint
\* 3000.00, no validation warnings, total GWP 19310.15, and a hotspot list
\* headed by Energy Consumption with 8720 kg CO2e, ahead of direct emissions
\* (8665), water (1720) and transport (205.15).
C12_CopperSample ==
    (pc = "generated" /\ given = CopperSample) =>
        /\ result.impacts[3].value = QInt(3000)
        /\ result.validationWarnings = <<>>
        /\ result.impacts[1].value = Q(1931015, 100)
        /\ result.hotspots[1].area = "Energy Consumption"
        /\ { <<result.hotspots[i].area, result.hotspots[i].impact>> :
               i \in 1..Len(result.hotspots) }
             = { <<"Energy Consumption", QInt(8720)>>,
                 <<"Direct Process Emissions", QInt(8665)>>,
                 <<"Water Usage", QInt(1720)>>,
                 <<"Transportation", Q(20515, 100)>> }

\* the copper sample assembled: energy and direct emissions both at 45 %
C12_Witness ==
    /\ pc = "generated"
    /\ given = CopperSample
    /\ result.hotspots[1].contribution = QInt(45)
    /\ result.hotspots[2].contribution = QInt(45)
    /\ result.hotspots[2].area = "Direct Process Emissions"

\* C13: isAIPowered is true exactly when a non-empty recommendation list
\* was passed as the second argument, and the result's aiRecommendations is
\* the argument that was passed, unaltered (absent stays absent).
C13_AIPowered ==
    pc = "generated" =>
        /\ result.aiRecommendations = passedRecommendations
        /\ result.isAIPowered <=>
              (passedRecommendations.present
                  /\ passedRecommendations.list # <<>>)

\* an empty list was passed: it is kept, and the result is not AI powered
C13_Witness ==
    /\ pc = "generated"
    /\ passedRecommendations = Given(<<>>)
    /\ result.aiRecommendations = Given(<<>>)
    /\ ~result.isAIPowered

\* a non-empty list was passed
C13_WitnessSupplied ==
    /\ pc = "generated"
    /\ passedRecommendations = Given(<<"r1">>)
    /\ result.isAIPowered

\* gwp / totalMaterialKg * 1000 with the material mass that defaults to
\* 1000 kg
ClaimGwpPerTonne(input, gwp) ==
    QMul(QDiv(gwp, ClaimTotalMaterialKg(input)), QInt(1000))

\* C14: the climate goal (SDG 13) is positive when gwp per tonne is below
\* 500, neutral when below 1000 and negative otherwise, gwp per tonne being
\* taken over the material mass that defaults to 1000 kg when the material
\* list is empty or sums to 0, as in the normalizer and the scorer.
C14_ClimateGoal ==
    pc = "analyzed" =>
        /\ direct.sdgAlignments[3].sdg = 13
        /\ direct.sdgAlignments[3].alignment =
              IF QLt(ClaimGwpPerTonne(given, direct.gwp), QInt(500))
              THEN "positive"
              ELSE IF QLt(ClaimGwpPerTonne(given, direct.gwp), QInt(1000))
                   THEN "neutral"
                   ELSE "negative"

\* round(0.30 gwp + 0.25 energy + 0.15 water + 0.15 waste + 0.15 mci), in
\* hundredths: the nearest integer to n/d, a tie going up
ClaimOverall(scores) ==
    LET sum == QAdd(QAdd(QAdd(QAdd(QMul(QInt(30), scores.gwpScore),
                                   QMul(QInt(25), scores.energyScore)),
                              QMul(QInt(15), scores.waterScore)),
                         QMul(QInt(15), scores.wasteScore)),
                    QMul(QInt(15), scores.mciScore))
    IN  QInt((2 * sum[1] + 100 * sum[2]) \div (200 * sum[2]))

\* C15: overall is the rounded weighted sum of the five sub-scores with
\* weights 0.30, 0.25, 0.15, 0.15, 0.15, and raising one sub-score while the
\* other four stay fixed never lowers it.
C15_OverallMonotone ==
    pc = "scored" =>
        /\ direct.before = ClaimOverall(given)
        /\ direct.after =
              ClaimOverall([given EXCEPT ![direct.name] = direct.raised])
        /\ QLe(direct.before, direct.after)

\* a sub-score raised by one half that moves the overall score over a
\* rounding boundary
C15_Witness ==
    /\ pc = "scored"
    /\ QSub(direct.raised, given[direct.name]) = Q(1, 2)
    /\ QLt(direct.before, direct.after)

\* a raise that the rounding absorbs
C15_WitnessAbsorbed ==
    /\ pc = "scored"
    /\ direct.before = direct.after

\* C16: every LCAInput handed to onSubmit, by a manual submit, a CSV upload
\* or the sample CSV, holds no raw material with an empty name or a
\* quantity <= 0, no energy entry with amount <= 0, no emission with an
\* empty type or amount <= 0 and no transport leg with distance <= 0; and
\* what a manual submit hands over has a project name that is not blank.
C16_HandedFiltered ==
    pc = "handed" =>
        /\ \A i \in 1..Len(submitted.data.rawMaterials) :
              /\ Len(submitted.data.rawMaterials[i].name) > 0
              /\ ~QLe(submitted.data.rawMaterials[i].quantity, Zero)
        /\ \A i \in 1..Len(submitted.data.energy) :
              ~QLe(submitted.data.energy[i].amount, Zero)
        /\ \A i \in 1..Len(submitted.data.emissions) :
              /\ Len(submitted.data.emissions[i].type) > 0
              /\ ~QLe(submitted.data.emissions[i].amount, Zero)
        /\ \A i \in 1..Len(submitted.data.transport) :
              ~QLe(submitted.data.transport[i].distance, Zero)
        /\ submitted.by = "handleSubmit" =>
              \E i \in 1..Len(submitted.data.projectName) :
                  submitted.data.projectName[i] # " "

\* a manual submit of two material rows of which one is dropped
C16_Witness ==
    /\ pc = "handed"
    /\ submitted.by = "handleSubmit"
    /\ Len(form.rawMaterials) = 2
    /\ Len(submitted.data.rawMaterials) = 1

\* an upload whose material row is dropped for its quantity
C16_WitnessUpload ==
    /\ pc = "handed"
    /\ submitted.by = "handleFileUpload"
    /\ Len(form.rawMaterials) = 1
    /\ form.rawMaterials[1].name = <<"O", "r", "e">>
    /\ QLt(form.rawMaterials[1].quantity, Zero)
    /\ submitted.data.rawMaterials = <<>>

\* the sample CSV handed over whole
C16_WitnessSampleCsv ==
    /\ pc = "handed"
    /\ submitted.by = "loadSampleCSV"
    /\ Len(submitted.data.rawMaterials) = 3
    /\ submitted.data.water.consumption = QInt(1000)

ImpactSum(hotspots) ==
    SumQ([i \in 1..Len(hotspots) |-> hotspots[i].impact])

\* C17: for every input with total GWP > 0 the impacts of the hotspots that
\* identifyHotspots returns add up to the value of calculateGWP, up to its
\* rounding to 2 decimals (a difference of at most 0.005).
C17_ImpactsAddUp ==
    (pc = "analyzed" /\ QGt(direct.gwp, Zero)) =>
        /\ QLe(QSub(ImpactSum(direct.hotspots), direct.gwp), Q(5, 1000))
        /\ QLe(QSub(direct.gwp, ImpactSum(direct.hotspots)), Q(5, 1000))

\* three hotspots whose impacts add up to a value that the total rounds off
C17_Witness ==
    /\ pc = "analyzed"
    /\ Len(direct.hotspots) = 3
    /\ ImpactSum(direct.hotspots) # direct.gwp

\* the label in lower case, letters and digits only
ClaimNormalized(label) ==
    LET lower == [i \in 1..Len(label) |-> ToLowerCase(<<label[i]>>)[1]]
        kept == { i \in 1..Len(label) : lower[i] \in LowerLetters \cup Digits }
        Rank(i) == Cardinality({ j \in kept : j <= i })
    IN  [k \in 1..Cardinality(kept) |->
            lower[CHOOSE i \in kept : Rank(i) = k]]

\* the three characters of key occur next to each other in text
ClaimOccurs(key, text) ==
    \E i \in 1..(Len(text) - 2) :
        text[i] = key[1] /\ text[i + 1] = key[2] /\ text[i + 2] = key[3]

\* the species keys in their fixed order
ClaimKeys ==
    << <<"c", "o", "2">>, <<"c", "h", "4">>, <<"n", "2", "o">>,
       <<"s", "f", "6">>, <<"h", "f", "c">>, <<"p", "f", "c">> >>

\* C18: the multiplier of an emission is that of the first key, in the order
\* co2, ch4, n2o, sf6, hfc, pfc, that occurs in the label once it is lower
\* cased and stripped of everything but letters and digits, and 1 when no
\* key occurs; with several keys in the label the earliest in that order
\* decides.
C18_FirstKeyWins ==
    pc = "resolved" =>
        LET hits == { k \in 1..6 :
                        ClaimOccurs(ClaimKeys[k], ClaimNormalized(given)) }
        IN  IF hits = {}
            THEN direct.gwpFactor = QInt(1)
            ELSE \E k \in hits :
                    /\ \A other \in hits : k <= other
                    /\ GWP_FACTORS[k].key = ClaimKeys[k]
                    /\ direct.gwpFactor = GWP_FACTORS[k].factor

\* methane named before carbon dioxide, with a separator: co2 decides
C18_Witness ==
    /\ pc = "resolved"
    /\ given = <<"c", "h", "4", "-", "C", "O", "2">>
    /\ direct.gwpFactor = QInt(1)

\* a species that only appears once the separator is stripped
C18_WitnessJoined ==
    /\ pc = "resolved"
    /\ given = <<"s", " ", "f", "6">>
    /\ direct.gwpFactor = QInt(25200)

\* x to the nearest multiple of 1/k, a tie going up
ClaimRounded(x, k) == Q((2 * k * x[1] + x[2]) \div (2 * x[2]), k)

\* the energy of the record in MJ: an amount counts 3.6-fold unless its
\* unit is MJ
ClaimEnergyMJ(input) ==
    SumQ([i \in 1..Len(input.energy) |->
            IF input.energy[i].unit = "MJ"
            THEN input.energy[i].amount
            ELSE QDiv(QMul(input.energy[i].amount, QInt(36)), QInt(10))])

\* the mass in kg of the materials given in kg or tonnes
ClaimMassKg(input) ==
    SumQ([i \in 1..Len(input.rawMaterials) |->
            IF input.rawMaterials[i].unit = "kg"
            THEN input.rawMaterials[i].quantity
            ELSE IF input.rawMaterials[i].unit = "tonnes"
                 THEN QMul(QInt(1000), input.rawMaterials[i].quantity)
                 ELSE Zero])

\* C19: calculateEnergyIntensity is the energy in MJ (amount * 3.6 unless
\* the unit is MJ) over the mass in kg of the materials given in kg or
\* tonnes (tonnes * 1000), rounded to 2 decimals, and 0 when that mass is 0.
C19_EnergyIntensity ==
    pc = "analyzed" =>
        direct.energyIntensity =
            IF ClaimMassKg(given) = Zero
            THEN Zero
            ELSE ClaimRounded(QDiv(ClaimEnergyMJ(given), ClaimMassKg(given)),
                              100)

\* diesel in litres counted as kWh, over a tonne of one material beside a
\* material in litres that does not count
C19_Witness ==
    /\ pc = "analyzed"
    /\ given.energy = << Energy("diesel", 2, "L") >>
    /\ given.rawMaterials = << Material(1, "tonnes"), Material(1, "L") >>
    /\ direct.energyIntensity = Q(1, 100)

\* energy over materials in litres only: intensity 0
C19_WitnessNoMass ==
    /\ pc = "analyzed"
    /\ given.energy = << Energy("diesel", 2, "L") >>
    /\ given.rawMaterials = << Material(1, "L") >>
    /\ direct.energyIntensity = Zero

\* recycled / consumption, 0 if consumption is 0
ClaimWaterRecycleRate(input) ==
    IF input.water.consumption = Zero THEN Zero
    ELSE QDiv(input.water.recycled, input.water.consumption)

\* renewable amounts over all amounts, 0 if the total is 0
ClaimRenewableShare(input) ==
    LET all == SumQ([i \in 1..Len(input.energy) |-> input.energy[i].amount])
        renewable ==
            SumQ([i \in 1..Len(input.energy) |->
                    IF input.energy[i].type = "renewable"
                    THEN input.energy[i].amount
                    ELSE Zero])
    IN  IF all = Zero THEN Zero ELSE QDiv(renewable, all)

\* the mean of recycled / max(amount, 1), or 0.3 without waste entries
ClaimWasteRecycleRate(input) ==
    IF input.waste = <<>> THEN Q(3, 10)
    ELSE QDiv(SumQ([i \in 1..Len(input.waste) |->
                      IF QLt(input.waste[i].amount, QInt(1))
                      THEN input.waste[i].recycled
                      ELSE QDiv(input.waste[i].recycled,
                                input.waste[i].amount)]),
              QInt(Len(input.waste)))

ClaimMci(input) ==
    QAdd(QAdd(QMul(QInt(30), ClaimWaterRecycleRate(input)),
              QMul(QInt(30), ClaimRenewableShare(input))),
         QMul(QInt(40), ClaimWasteRecycleRate(input)))

\* C20: calculateMCI is 0 when the material quantities (tonnes * 1000) sum
\* to 0; otherwise it is 100 * (0.3 waterRecycleRate + 0.3 renewable share
\* + 0.4 wasteRecycleRate) held within [0, 100] and rounded to 1 decimal.
C20_Mci ==
    pc = "analyzed" =>
        direct.mci =
            IF MaterialSum(given.rawMaterials) = Zero
            THEN Zero
            ELSE IF QLt(ClaimMci(given), Zero) THEN Zero
            ELSE IF QGt(ClaimMci(given), QInt(100)) THEN QInt(100)
            ELSE ClaimRounded(ClaimMci(given), 10)

\* two waste entries with a mean rate of 0.375, renewable energy and
\* recycled water, below the ceiling
C20_Witness ==
    /\ pc = "analyzed"
    /\ Len(given.waste) = 2
    /\ QGt(ClaimRenewableShare(given), Zero)
    /\ QGt(ClaimWaterRecycleRate(given), Zero)
    /\ QLt(direct.mci, QInt(100))
    /\ QGt(direct.mci, QInt(15))

\* held at the ceiling
C20_WitnessCeiling ==
    /\ pc = "analyzed"
    /\ QGt(ClaimMci(given), QInt(100))
    /\ direct.mci = QInt(100)

\* no waste entries: the benchmark rate of 0.3 alone gives 12
C20_WitnessBenchmark ==
    /\ pc = "analyzed"
    /\ given.waste = <<>>
    /\ direct.mci = QInt(12)

\* the place of a category in the order of evaluation
ClaimRank(area) ==
    CASE area = "Energy Consumption"       -> 1
      [] area = "Transportation"           -> 2
      [] area = "Direct Process Emissions" -> 3
      [] area = "Water Usage"              -> 4

ClaimSorted(hotspots) ==
    \A i, j \in 1..Len(hotspots) :
        i < j =>
            /\ QGe(hotspots[i].contribution, hotspots[j].contribution)
            /\ hotspots[i].contribution = hotspots[j].contribution =>
                  ClaimRank(hotspots[i].area) < ClaimRank(hotspots[j].area)

\* C21: the list identifyHotspots returns is in non-increasing order of
\* contribution, and two hotspots of equal contribution stand in the order
\* of evaluation: energy, transport, direct emissions, water.
C21_SortedStable ==
    /\ pc = "analyzed" => ClaimSorted(direct.hotspots)
    /\ pc = "generated" => ClaimSorted(result.hotspots)

\* a list the sort rearranged (water, evaluated last, comes first) and in
\* which two earlier categories tie
C21_Witness ==
    /\ pc = "analyzed"
    /\ Len(direct.hotspots) >= 3
    /\ direct.hotspots[1].area = "Water Usage"
    /\ \E i \in 2..(Len(direct.hotspots) - 1) :
          direct.hotspots[i].contribution = direct.hotspots[i + 1].contribution

\* energy and transport tie at 50 and energy stays first
C21_WitnessTie ==
    /\ pc = "analyzed"
    /\ Len(direct.hotspots) = 2
    /\ direct.hotspots[1].area = "Energy Consumption"
    /\ direct.hotspots[2].area = "Transportation"
    /\ direct.hotspots[1].contribution = QInt(50)
    /\ direct.hotspots[2].contribution = QInt(50)

\* the PRIORITY texts and the closed-loop text
ClaimPriorityText(area) ==
    CASE area = "Energy Consumption" ->
             "PRIORITY: Transition to renewable energy sources - potential 80%+ reduction"
      [] area = "Transportation" ->
             "PRIORITY: Shift to rail/ship transport or optimize routes"
      [] area = "Direct Process Emissions" ->
             "PRIORITY: Implement emission capture or process optimization"
      [] area = "Water Usage" ->
             "Implement closed-loop water recycling systems"

ClaimThreshold(area) ==
    CASE area = "Energy Consumption"       -> QInt(40)
      [] area = "Transportation"           -> QInt(20)
      [] area = "Direct Process Emissions" -> QInt(30)

\* the recommendation of every hotspot but the water one follows from the
\* contribution the hotspot reports
ClaimByReportedContribution(hotspots) ==
    \A i \in 1..Len(hotspots) :
        hotspots[i].area # "Water Usage" =>
            (hotspots[i].recommendation = ClaimPriorityText(hotspots[i].area)
                <=> QGt(hotspots[i].contribution,
                        ClaimThreshold(hotspots[i].area)))

ClaimByRecycleRate(hotspots, water) ==
    \A i \in 1..Len(hotspots) :
        hotspots[i].area = "Water Usage" =>
            (hotspots[i].recommendation = ClaimPriorityText("Water Usage")
                <=> QLt(QMul(QDiv(water.recycled, water.consumption),
                             QInt(100)),
                        QInt(50)))

\* C22: each hotspot's recommendation is decided by the contribution it
\* reports: the PRIORITY text iff that contribution is above 40 (energy),
\* 20 (transport), 30 (direct emissions); the water hotspot carries the
\* closed-loop text iff recycled / consumption is below 50 %.
C22_RecommendationByContribution ==
    /\ pc = "analyzed" =>
          /\ ClaimByReportedContribution(direct.hotspots)
          /\ ClaimByRecycleRate(direct.hotspots, given.water)
    /\ pc = "generated" => ClaimByReportedContribution(result.hotspots)

\* the waste score as stated: the recycle rate in per cent, at most 100, as
\* the score record reports it (rounded to an integer)
ClaimWasteScore(input) ==
    MathRound(MathMin(QInt(100),
                      QMul(IF input.waste = <<>>
                           THEN ClaimWaterRecycleRate(input)
                           ELSE ClaimWasteRecycleRate(input),
                           QInt(100))))

\* C23: without waste entries wasteScore is the water recycle rate of the
\* circularity scorer (recycled / consumption, 0 if consumption is 0) times
\* 100, clamped to 100; with waste entries it is the mean of
\* recycled / max(amount, 1) times 100, clamped to 100 (stated for the scorer
\* applied to the caller's record, and for an assembled result whose water
\* consumption was given).
C23_WasteScore ==
    /\ pc = "analyzed" =>
          direct.sustainabilityScore.wasteScore = ClaimWasteScore(given)
    /\ (pc = "generated" /\ QGt(given.water.consumption, Zero)) =>
          result.sustainabilityScore.wasteScore = ClaimWasteScore(given)

ClaimNoTransport(input) ==
    \A i \in 1..Len(input.transport) : input.transport[i].distance = Zero

\* one field of the normalized record against the caller's: replaced by
\* `benchmark` with one benchmark warning, or passed through with none
ClaimSubstituted(missing, field, warningField, benchmark) ==
    LET validated == Deref(heap, norm.validatedInput)
        fieldWarnings == WarningsFor(norm.warnings, warningField)
    IN  IF missing
        THEN /\ validated[field] = benchmark
             /\ Len(fieldWarnings) = 1
             /\ fieldWarnings[1].usedBenchmark
        ELSE /\ validated[field] = given[field]
             /\ heap[norm.validatedInput][field] = heap[callerInput][field]
             /\ fieldWarnings = <<>>

\* C24: water and transport are substituted independently of each other and
\* of energy.  Water consumption becomes (totalMaterialKg / 1000) * 5 iff it
\* is 0, discharge and recycled staying as given; transport becomes one
\* truck leg of 200 km carrying totalMaterialKg iff the list is empty or
\* every distance is 0.  Each substitution adds exactly one warning with
\* usedBenchmark = TRUE; otherwise the field passes through unchanged with
\* no warning.
C24_WaterTransportBenchmarks ==
    pc = "normalized" =>
        /\ ClaimSubstituted(
               given.water.consumption = Zero, "water", "Water",
               [consumption |-> QMul(QDiv(ClaimTotalMaterialKg(given),
                                          QInt(1000)),
                                     QInt(5)),
                discharge |-> given.water.discharge,
                recycled |-> given.water.recycled])
        /\ ClaimSubstituted(
               ClaimNoTransport(given), "transport", "Transport",
               << [mode |-> "truck", distance |-> QInt(200),
                   loadWeight |-> ClaimTotalMaterialKg(given)] >>)

\* water substituted (recycled kept) while transport and energy are not
C24_Witness ==
    /\ pc = "normalized"
    /\ given.water.consumption = Zero
    /\ QGt(given.water.recycled, Zero)
    /\ ~ClaimNoTransport(given)
    /\ ~ClaimNoEnergy(given)
    /\ Deref(heap, norm.validatedInput).water.recycled = given.water.recycled
    /\ HasBenchmarkWarning(norm.warnings, "Water")
    /\ ~HasBenchmarkWarning(norm.warnings, "Transport")
    /\ ~HasBenchmarkWarning(norm.warnings, "Energy")

\* a transport list of zero distances substituted while water is not
C24_WitnessTransport ==
    /\ pc = "normalized"
    /\ given.transport # <<>>
    /\ ClaimNoTransport(given)
    /\ QGt(given.water.consumption, Zero)
    /\ ClaimTotalMaterialKg(given) = QInt(1001)
    /\ Deref(heap, norm.validatedInput).transport[1].loadWeight = QInt(1001)
    /\ ~HasBenchmarkWarning(norm.warnings, "Water")

\* the fields of the warnings due for a record, in the order of the checks
ClaimWarningFields(input) ==
    (IF ClaimNoEnergy(input) THEN <<"Energy">> ELSE <<>>)
        \o (IF input.water.consumption = Zero THEN <<"Water">> ELSE <<>>)
        \o (IF ClaimNoTransport(input) THEN <<"Transport">> ELSE <<>>)
        \o (IF ClaimNoEmissions(input) THEN <<"Emissions">> ELSE <<>>)
        \o (IF Trim(input.projectName) = <<>> THEN <<"Project Name">>
            ELSE <<>>)

ClaimFields(warnings) == [i \in 1..Len(warnings) |-> warnings[i].field]

\* C25: missing emissions are never imputed.  When the emissions list is
\* empty or all amounts are 0 the normalized emissions list is the input's,
\* exactly one warning with field "Emissions" and usedBenchmark = FALSE is
\* given, and the direct-emissions term of the GWP is 0: the result has no
\* direct-emissions hotspot and its GWP is the sum of the other categories
\* (up to its rounding to 2 decimals).
\* Every warning of the normalizer appears, in the same order, in the
\* result's validationWarnings.
C25_EmissionsNotImputed ==
    /\ (pc = "normalized" /\ ClaimNoEmissions(given)) =>
          /\ Deref(heap, norm.validatedInput).emissions = given.emissions
          /\ heap[norm.validatedInput].emissions = heap[callerInput].emissions
          /\ Len(WarningsFor(norm.warnings, "Emissions")) = 1
          /\ ~WarningsFor(norm.warnings, "Emissions")[1].usedBenchmark
    /\ pc = "normalized" =>
          ClaimFields(norm.warnings) = ClaimWarningFields(given)
    /\ pc = "generated" =>
          /\ result.validationWarnings
                = validateAndApplyBenchmarks(heap, callerInput).warnings
          /\ ClaimFields(result.validationWarnings)
                = ClaimWarningFields(given)
          /\ ClaimNoEmissions(given) =>
                /\ "Direct Process Emissions" \notin Areas(result.hotspots)
                /\ QLe(QSub(ImpactSum(result.hotspots),
                            result.impacts[1].value),
                       Q(5, 1000))
                /\ QLe(QSub(result.impacts[1].value,
                            ImpactSum(result.hotspots)),
                       Q(5, 1000))

\* a list of zero emissions, in a result whose fourth warning, after three
\* benchmark warnings, is the informational one
C25_Witness ==
    /\ pc = "generated"
    /\ given.emissions # <<>>
    /\ ClaimNoEmissions(given)
    /\ Len(result.validationWarnings) = 4
    /\ result.validationWarnings[3].usedBenchmark
    /\ result.validationWarnings[4].field = "Emissions"
    /\ ~result.validationWarnings[4].usedBenchmark

\* the normalizer alone: an empty emissions list and no other warning
C25_WitnessNormalized ==
    /\ pc = "normalized"
    /\ given.emissions = <<>>
    /\ Len(norm.warnings) = 1
    /\ Deref(heap, norm.validatedInput).emissions = <<>>

ClaimBand(percent, high, low) ==
    IF QGt(percent, QInt(high)) THEN "positive"
    ELSE IF QGt(percent, QInt(low)) THEN "neutral"
    ELSE "negative"

ClaimGoals(alignments) == [i \in 1..Len(alignments) |-> alignments[i].sdg]

\* C26: SDG 9 is positive iff the renewable energy share is above 30 %,
\* neutral iff it is above 10 % and at most 30 %, else negative (the share
\* is 0 when the total energy is 0); SDG 12 is positive iff the water
\* recycle rate is above 50 %, neutral iff it is above 25 % and at most
\* 50 %, else negative (the rate is 0 when consumption is 0); the classifier
\* always returns exactly three entries, for the goals 9, 12, 13 in this
\* order.
C26_GoalBands ==
    /\ pc = "analyzed" =>
          /\ ClaimGoals(direct.sdgAlignments) = <<9, 12, 13>>
          /\ direct.sdgAlignments[1].alignment
                = ClaimBand(QMul(ClaimRenewableShare(given), QInt(100)),
                            30, 10)
          /\ direct.sdgAlignments[2].alignment
                = ClaimBand(QMul(ClaimWaterRecycleRate(given), QInt(100)),
                            50, 25)
    /\ pc = "generated" =>
          /\ ClaimGoals(result.sdgAlignments) = <<9, 12, 13>>
          /\ result.sdgAlignments[1].alignment
                = ClaimBand(QMul(ClaimRenewableShare(
                                     Deref(heap, callerInput)),
                                 QInt(100)),
                            30, 10)
          /\ QGt(given.water.consumption, Zero) =>
                result.sdgAlignments[2].alignment
                    = ClaimBand(QMul(ClaimWaterRecycleRate(given),
                                     QInt(100)),
                                50, 25)

\* a renewable share of 25 % and a recycle rate of exactly 50 %: both
\* neutral
C26_Witness ==
    /\ pc = "analyzed"
    /\ ClaimRenewableShare(given) = Q(1, 4)
    /\ ClaimWaterRecycleRate(given) = Q(1, 2)
    /\ direct.sdgAlignments[1].alignment = "neutral"
    /\ direct.sdgAlignments[2].alignment = "neutral"

\* no energy and no water at all: both negative
C26_WitnessNoData ==
    /\ pc = "analyzed"
    /\ given.energy = <<>>
    /\ given.water.consumption = Zero
    /\ QGt(given.water.recycled, Zero)
    /\ direct.sdgAlignments[1].alignment = "negative"
    /\ direct.sdgAlignments[2].alignment = "negative"

\* renewable energy alone and all water recycled: both positive
C26_WitnessPositive ==
    /\ pc = "generated"
    /\ ClaimRenewableShare(given) = QInt(1)
    /\ ClaimWaterRecycleRate(given) = QInt(1)
    /\ result.sdgAlignments[1].alignment = "positive"
    /\ result.sdgAlignments[2].alignment = "positive"

\* back-to-landing and reset (a step to the landing view from another view,
\* a step from the results view to the input view) leave the stored result
\* null; the step from landing to input is taken only with a signed-in
\* user, and a start without one leaves the page with the view still
\* 'landing'
ClaimViewStep ==
    /\ (view # "landing" /\ view' = "landing") => result' = NotCalled
    /\ (view = "results" /\ view' = "input") => result' = NotCalled
    /\ (view = "landing" /\ view' = "input") => user
    /\ (pc = "index" /\ pc' = "auth") =>
          (~user /\ view = "landing" /\ view' = "landing")

\* C27: in the page's view-state machine, after any sequence of
\* start-analysis, submit, reset and back-to-landing actions: whenever the
\* results view is shown the stored result is not null, reset and
\* back-to-landing always clear the result, and the step from landing to
\* input happens only when a user is signed in (otherwise the view stays
\* 'landing').
C27_ViewMachine ==
    /\ [](view = "results" => result # NotCalled)
    /\ [][ClaimViewStep]_vars

\* the results view showing the result of a record for which nothing was
\* imputed but a warning about nothing either
C27_Witness ==
    /\ view = "results"
    /\ Len(result) = 1
    /\ result[1].projectName = <<"C", "u">>
    /\ result[1].validationWarnings = <<>>
    /\ Len(result[1].hotspots) = 4

\* a start without a user: the page is left and the view is still landing
C27_WitnessRefused ==
    /\ pc = "auth"
    /\ view = "landing"
    /\ ~user
    /\ result = NotCalled

\* C28: the view switches to 'results' only from the input view, as the
\* outcome of a submit made while the form is shown: the timer of an import
\* never switches the view to 'results' after the user went back to the
\* landing view.
C28_ResultsOnlyFromInput ==
    [][(view # "results" /\ view' = "results") => view = "input"]_vars

\* C29: every result the page stores has isAIPowered = FALSE, the handler
\* having passed an empty recommendation list to generateLCAResult.
C29_NeverAIPowered ==
    result # NotCalled =>
        /\ ~result[1].isAIPowered
        /\ result[1].aiRecommendations = Given(<<>>)

\* a result on display, stored by a timer after the user had signed out
C29_Witness ==
    /\ view = "results"
    /\ ~user
    /\ Len(result) = 1
    /\ Len(result[1].hotspots) = 3
    /\ ~result[1].isAIPowered

\* no raw material is given in kg or tonnes
ClaimNoWeighedMaterial(input) ==
    \A i \in 1..Len(input.rawMaterials) :
        input.rawMaterials[i].unit \notin {"kg", "tonnes"}

\* C30: when no raw material is given in kg or tonnes (the empty list
\* included) generateLCAResult reports energy intensity 0 and energyScore
\* 100 whatever the energy amounts are, although the normalizer sized what
\* it imputed from a total material mass that is not 0 (every benchmark
\* value it reports is positive).
C30_NoWeighedMaterial ==
    (pc = "generated" /\ ClaimNoWeighedMaterial(given)) =>
        /\ result.impacts[2].value = Zero
        /\ result.sustainabilityScore.energyScore = QInt(100)
        /\ QGt(ClaimTotalMaterialKg(given), Zero)
        /\ \A i \in 1..Len(result.validationWarnings) :
              result.validationWarnings[i].usedBenchmark =>
                  QGt(result.validationWarnings[i].benchmarkValue, Zero)

\* one litre of material and 90 MJ of gas: energy was given, a mass of 1
\* sized the imputed water, and the intensity is 0
C30_Witness ==
    /\ pc = "generated"
    /\ Len(given.rawMaterials) = 1
    /\ given.rawMaterials[1].unit = "L"
    /\ given.energy # <<>>
    /\ ~ClaimNoEnergy(given)
    /\ HasBenchmarkWarning(result.validationWarnings, "Water")
    /\ result.impacts[2].value = Zero
    /\ result.sustainabilityScore.energyScore = QInt(100)

\* no material at all: 500 kWh imputed for the default 1000 kg, intensity 0
C30_WitnessEmpty ==
    /\ pc = "generated"
    /\ given.rawMaterials = <<>>
    /\ HasBenchmarkWarning(result.validationWarnings, "Energy")
    /\ WarningsFor(result.validationWarnings, "Energy")[1].benchmarkValue
          = QInt(500)
    /\ result.impacts[2].value = Zero

====
